---------------------------- MODULE Spec2Model ----------------------------
(***************************************************************************)
(* A model of the flowsheet core of Separation-Agents: the schema layer    *)
(* (UnitOp construction), the Critic, the execution engine                 *)
(* (Orchestrator.run_once) with the unit behaviours it dispatches, and the *)
(* nested optimizer (OrchestratorAgent.optimize_process).                  *)
(*                                                                         *)
(* Numbers: every float of the program is held in tenths (8.0 is 80,       *)
(* 0.6 is 6), PSD bin edges in whole microns.  Unit ids and KPI keys are   *)
(* sequences of one-character and word tokens, so that the key             *)
(* "<id>.<kpi>" is built by concatenation as the f-string builds it.       *)
(* The mass fractions handed to the PSD validator (PSDSpec) are held in    *)
(* hundredths, the grain of its tolerance.                                 *)
(***************************************************************************)
EXTENDS Integers, Sequences, FiniteSets, TLC

VARIABLES
    \* ---- schema layer: one UnitOp(description) call
    uDesc,      \* the description handed to UnitOp(...)
    uOut,       \* what the call produced: [status |-> "none" | "ok" | "error", ...]
    \* ---- execution engine: one Flowsheet object and the calls made on it
    fs,         \* the Flowsheet: [units |-> Seq(UnitOp), streams |-> Seq(Stream)]
    result,     \* the mapping the last run_once call returned
    simLog,     \* the simulate calls of the last run_once: indexes of fs.units, in call order
    lastOp,     \* the last operation applied to fs
    calls,      \* how many calls were made on the Orchestrator
    \* ---- optimize_process
    optVars,    \* optimization_variables
    baseIC,     \* base_initial_conditions
    baseSP,     \* base_simulation_params
    maxIter,    \* max_iter
    pc,         \* where optimize_process is
    x0,         \* the initial guess assembled so far
    nit,        \* iterations the minimizer has completed
    nfev,       \* objective evaluations the minimizer has made
    evInIter,   \* objective evaluations made in the current iteration
    vals,       \* the values the objective has returned
    best,       \* the best point the minimizer holds: [x, fun]
    lastDp,     \* the last design_process call: [outcome, args, value]
    dpCalls,    \* design_process calls made
    dpReturned, \* design_process calls that returned normally
    ret,        \* what optimize_process returned or raised
    \* ---- the OrchestratorAgent and its collaborators
    agent,              \* the OrchestratorAgent: the collaborator instances it holds
    default_cost_params,\* the cost-parameter mapping the economics collaborators share
    economic_params     \* economic_params of the optimize_process call

schemaVars == <<uDesc, uOut>>
engineVars == <<fs, result, simLog, lastOp, calls>>
agentVars == <<agent, default_cost_params, economic_params>>
optVarsAll == <<optVars, baseIC, baseSP, maxIter, pc, x0, nit, nfev, evInIter,
                vals, best, lastDp, dpCalls, dpReturned, ret, agentVars>>
vars == <<schemaVars, engineVars, optVarsAll>>

-----------------------------------------------------------------------------
(* Bounds of the model *)

MaxParams == 3      \* parameters an UnitOp description carries at most
MaxUnits == 2       \* units of a flowsheet at most
MaxCalls == 2       \* Orchestrator calls followed on one flowsheet
MaxBins == 3        \* bins of a PSD description at most
MaxVars == 2        \* optimization variables at most
MaxIterBound == 1   \* max_iter is drawn from 0..MaxIterBound
EvalsPerIter == 1   \* objective evaluations the minimizer makes per iteration at most

-----------------------------------------------------------------------------
(* Dictionaries *)

EmptyDict == [k \in {} |-> 0]

Get(d, k, default) == IF k \in DOMAIN d THEN d[k] ELSE default

\* Update with the precedence reversed: an entry already in d is kept
Update_KeepFirst(d, e) ==
    [k \in (DOMAIN d) \cup (DOMAIN e) |-> IF k \in DOMAIN d THEN d[k] ELSE e[k]]

\* dict.update: the entries of e overwrite those of d
Update(d, e) ==
    [k \in (DOMAIN d) \cup (DOMAIN e) |-> IF k \in DOMAIN e THEN e[k] ELSE d[k]]

RECURSIVE SumValues(_)
SumValues(d) ==
    IF DOMAIN d = {} THEN 0
    ELSE LET k == CHOOSE x \in DOMAIN d : TRUE
         IN d[k] + SumValues([j \in (DOMAIN d) \ {k} |-> d[j]])

Range(s) == {s[i] : i \in DOMAIN s}

Min(S) == CHOOSE m \in S : \A n \in S : m <= n

\* the sequences of at most n pairwise different elements of S
SeqsNoDup(S, n) ==
    {s \in UNION {[1..m -> S] : m \in 0..n} :
        \A i, j \in DOMAIN s : i # j => s[i] # s[j]}

-----------------------------------------------------------------------------
(* Schema layer: UnitOp construction *)

UNIT_PARAM_SPEC ==
    [mill |-> [req |-> <<"fineness_factor">>,
               opt |-> <<"E_specific_kWhpt", "media_type">>],
     cyclone |-> [req |-> <<"d50c_um">>,
                  opt |-> <<"sharpness_alpha", "pressure_kPa">>],
     lims |-> [req |-> <<"magnetic_recovery">>,
               opt |-> <<"field_T">>],
     flotation_bank |-> [req |-> <<"k_s_1ps", "R_inf">>,
                         opt |-> <<"air_rate_m3m2s", "froth_recovery", "stages">>]]

\* An ordered parameter mapping (a YAML mapping) as the dict it becomes
ToDict(items) ==
    [k \in {items[i][1] : i \in DOMAIN items} |->
        (items[CHOOSE i \in DOMAIN items : items[i][1] = k])[2]]

\* UnitOp.check_params, the validator of the field params: v is the given
\* mapping in its order, unit_type the value of the field type
check_params(v, unit_type) ==
    IF unit_type \notin DOMAIN UNIT_PARAM_SPEC
    THEN [ok |-> FALSE, error |-> <<"Unknown unit type", unit_type>>]
    ELSE LET req_params == UNIT_PARAM_SPEC[unit_type].req
             opt_params == UNIT_PARAM_SPEC[unit_type].opt
             given == {v[i][1] : i \in DOMAIN v}
             missing == {i \in DOMAIN req_params : req_params[i] \notin given}
             unknown == {i \in DOMAIN v :
                            /\ v[i][1] \notin Range(req_params)
                            /\ v[i][1] \notin Range(opt_params)}
         IN  IF missing # {}
             THEN [ok |-> FALSE,
                   error |-> <<"Missing required parameter", req_params[Min(missing)]>>]
             ELSE IF unknown # {}
             THEN [ok |-> FALSE,
                   error |-> <<"Unknown parameter", v[Min(unknown)][1]>>]
             ELSE [ok |-> TRUE, error |-> <<>>]

\* UnitOp(d): the field validator runs on a params value that is given; a
\* description without params takes the field's default_factory (dict), which
\* is not validated (the validator does not ask for defaults to be validated).
UnitOp(d) ==
    IF ~d.has_params
    THEN [status |-> "ok",
          unit |-> [id |-> d.id, type |-> d.type, params |-> EmptyDict,
                    inputs |-> d.inputs, outputs |-> d.outputs]]
    ELSE LET c == check_params(d.params, d.type)
         IN  IF c.ok
             THEN [status |-> "ok",
                   unit |-> [id |-> d.id, type |-> d.type, params |-> ToDict(d.params),
                             inputs |-> d.inputs, outputs |-> d.outputs]]
             ELSE [status |-> "error", error |-> c.error]


-----------------------------------------------------------------------------
(* Streams.  A Stream's optional psd is a sequence of at most one PSD. *)

NoPSD == <<>>

Stream(name, psd) == [name |-> name, psd |-> psd]

PSD(bins_um, mass_frac) == [bins_um |-> bins_um, mass_frac |-> mass_frac]

RECURSIVE SumSeq(_)
SumSeq(v) == IF v = <<>> THEN 0 ELSE v[1] + SumSeq(Tail(v))

SumLow == 99        \* 0.99, in hundredths
SumHigh == 101      \* 1.01, in hundredths

\* the validator with both ends of the tolerance excluded
PSD_sum_to_one_Strict(v) ==
    LET s == SumSeq(v)
    IN  IF ~(SumLow < s /\ s < SumHigh)
        THEN [ok |-> FALSE, error |-> <<"PSD mass fractions sum to", s>>]
        ELSE [ok |-> TRUE, error |-> <<>>]

\* PSD._sum_to_one, the validator of the field mass_frac (v in hundredths)
PSD_sum_to_one(v) ==
    LET s == SumSeq(v)
    IN  IF ~(SumLow <= s /\ s <= SumHigh)
        THEN [ok |-> FALSE, error |-> <<"PSD mass fractions sum to", s>>]
        ELSE [ok |-> TRUE, error |-> <<>>]

\* PSD(bins_um=..., mass_frac=...): mass_frac is a required field, so its
\* validator runs in every construction
PSD_construct(d) ==
    LET c == PSD_sum_to_one(d.mass_frac)
    IN  IF c.ok
        THEN [status |-> "ok", psd |-> PSD(d.bins_um, d.mass_frac)]
        ELSE [status |-> "error", error |-> c.error]

-----------------------------------------------------------------------------
(* Flowsheet.validate_graph *)

\* {s.name for s in self.streams}
StreamNames(f) == {f.streams[i].name : i \in DOMAIN f.streams}

\* the first stream of u.inputs + u.outputs that is not in names, as a
\* sequence of at most one name
FirstUnknown(u, names) ==
    LET refs == u.inputs \o u.outputs
        bad == {i \in DOMAIN refs : refs[i] \notin names}
    IN  IF bad = {} THEN <<>> ELSE <<refs[Min(bad)]>>

\* validate_graph making its feed/sink test before its test of the references
validate_graph_FeedSinkFirst(f) ==
    LET stream_names == StreamNames(f)
        used_as_input == UNION {Range(f.units[i].inputs) : i \in DOMAIN f.units}
        used_as_output == UNION {Range(f.units[i].outputs) : i \in DOMAIN f.units}
        dangling == {i \in DOMAIN f.units : FirstUnknown(f.units[i], stream_names) # <<>>}
    IN  IF stream_names \ used_as_output = {}
        THEN [status |-> "raised", error |-> <<"No feed streams">>]
        ELSE IF stream_names \ used_as_input = {}
        THEN [status |-> "raised", error |-> <<"No product/sink streams">>]
        ELSE IF dangling # {}
        THEN [status |-> "raised",
              error |-> <<"Unit ", f.units[Min(dangling)].id, " references unknown stream ",
                          FirstUnknown(f.units[Min(dangling)], stream_names)[1]>>]
        ELSE [status |-> "ok", value |-> TRUE]

\* validate_graph without its test for a sink
validate_graph_NoSinkTest(f) ==
    LET stream_names == StreamNames(f)
        used_as_output == UNION {Range(f.units[i].outputs) : i \in DOMAIN f.units}
        dangling == {i \in DOMAIN f.units : FirstUnknown(f.units[i], stream_names) # <<>>}
    IN  IF dangling # {}
        THEN [status |-> "raised",
              error |-> <<"Unit ", f.units[Min(dangling)].id, " references unknown stream ",
                          FirstUnknown(f.units[Min(dangling)], stream_names)[1]>>]
        ELSE IF stream_names \ used_as_output = {}
        THEN [status |-> "raised", error |-> <<"No feed streams">>]
        ELSE [status |-> "ok", value |-> TRUE]

\* Flowsheet.validate_graph: True, or the ValueError it raises
validate_graph(f) ==
    LET stream_names == StreamNames(f)
        used_as_input == UNION {Range(f.units[i].inputs) : i \in DOMAIN f.units}
        used_as_output == UNION {Range(f.units[i].outputs) : i \in DOMAIN f.units}
        feeds == stream_names \ used_as_output
        prods == stream_names \ used_as_input
        dangling == {i \in DOMAIN f.units : FirstUnknown(f.units[i], stream_names) # <<>>}
    IN  IF dangling # {}
        THEN [status |-> "raised",
              error |-> <<"Unit ", f.units[Min(dangling)].id, " references unknown stream ",
                          FirstUnknown(f.units[Min(dangling)], stream_names)[1]>>]
        ELSE IF feeds = {}
        THEN [status |-> "raised", error |-> <<"No feed streams">>]
        ELSE IF prods = {}
        THEN [status |-> "raised", error |-> <<"No product/sink streams">>]
        ELSE [status |-> "ok", value |-> TRUE]

-----------------------------------------------------------------------------
(* Critic *)

\* Critic.check without its test of the outputs
Critic_check_InputsOnly(f) ==
    LET bad == {i \in DOMAIN f.units : f.units[i].inputs = <<>>}
    IN  IF bad # {}
        THEN <<FALSE, <<"Unit ", f.units[Min(bad)].id, " missing inputs/outputs">> >>
        ELSE <<TRUE, <<"ok">> >>

\* Critic.check reporting the last unit without inputs or outputs
Critic_check_LastUnwired(f) ==
    LET bad == {i \in DOMAIN f.units :
                   f.units[i].inputs = <<>> \/ f.units[i].outputs = <<>>}
    IN  IF bad # {}
        THEN <<FALSE, <<"Unit ", f.units[CHOOSE m \in bad : \A n \in bad : n <= m].id,
                        " missing inputs/outputs">> >>
        ELSE <<TRUE, <<"ok">> >>

\* Critic.check: <<ok, message>>, the first unit without inputs or outputs
Critic_check(f) ==
    LET bad == {i \in DOMAIN f.units :
                   f.units[i].inputs = <<>> \/ f.units[i].outputs = <<>>}
    IN  IF bad # {}
        THEN <<FALSE, <<"Unit ", f.units[Min(bad)].id, " missing inputs/outputs">> >>
        ELSE <<TRUE, <<"ok">> >>

-----------------------------------------------------------------------------
(* Unit behaviours.  simulate(feed) is modelled by what it returns, outputs *)
(* and kpis, and by what the feed object holds when it returns, feed.       *)

DefaultFineness == 7        \* 0.7
DefaultEnergy == 80         \* 8.0
DefaultSplit == 6           \* 0.6
DefaultMagRec == 8          \* 0.8
DefaultK == 5               \* 0.5
DefaultExt == 6             \* 0.6
Flux == 10                  \* 1.0

\* Mill.simulate rescaling the PSD of the feed object itself
Mill_simulate_InPlace(params, feed) ==
    IF feed.psd = NoPSD
    THEN [feed |-> feed,
          outputs |-> [product |-> feed],
          kpis |-> [E_specific_kWhpt |-> 0]]
    ELSE LET bins == feed.psd[1].bins_um
             factor == Get(params, "fineness_factor", DefaultFineness)
             new_bins == [i \in DOMAIN bins |-> (bins[i] * factor) \div 10]
             prod == [feed EXCEPT !.psd = <<PSD(new_bins, feed.psd[1].mass_frac)>>]
         IN  [feed |-> prod,
              outputs |-> [product |-> prod],
              kpis |-> [E_specific_kWhpt |-> Get(params, "E_specific_kWhpt", DefaultEnergy)]]

\* Mill.simulate reporting the default specific energy whatever the parameter
Mill_simulate_DefaultEnergy(params, feed) ==
    IF feed.psd = NoPSD
    THEN [feed |-> feed,
          outputs |-> [product |-> feed],
          kpis |-> [E_specific_kWhpt |-> 0]]
    ELSE LET bins == feed.psd[1].bins_um
             factor == Get(params, "fineness_factor", DefaultFineness)
             new_bins == [i \in DOMAIN bins |-> (bins[i] * factor) \div 10]
             prod == [feed EXCEPT !.psd = <<PSD(new_bins, feed.psd[1].mass_frac)>>]
         IN  [feed |-> feed,
              outputs |-> [product |-> prod],
              kpis |-> [E_specific_kWhpt |-> DefaultEnergy]]

\* Mill.simulate reporting the energy parameter for a feed without PSD too
Mill_simulate_EnergyAlways(params, feed) ==
    IF feed.psd = NoPSD
    THEN [feed |-> feed,
          outputs |-> [product |-> feed],
          kpis |-> [E_specific_kWhpt |-> Get(params, "E_specific_kWhpt", DefaultEnergy)]]
    ELSE LET bins == feed.psd[1].bins_um
             factor == Get(params, "fineness_factor", DefaultFineness)
             new_bins == [i \in DOMAIN bins |-> (bins[i] * factor) \div 10]
             prod == [feed EXCEPT !.psd = <<PSD(new_bins, feed.psd[1].mass_frac)>>]
         IN  [feed |-> feed,
              outputs |-> [product |-> prod],
              kpis |-> [E_specific_kWhpt |-> Get(params, "E_specific_kWhpt", DefaultEnergy)]]

Mill_simulate(params, feed) ==
    IF feed.psd = NoPSD
    THEN [feed |-> feed,
          outputs |-> [product |-> feed],
          kpis |-> [E_specific_kWhpt |-> 0]]
    ELSE LET bins == feed.psd[1].bins_um
             mf == feed.psd[1].mass_frac
             factor == Get(params, "fineness_factor", DefaultFineness)
             new_bins == [i \in DOMAIN bins |-> (bins[i] * factor) \div 10]
             new_psd == PSD(new_bins, mf)
             prod == [feed EXCEPT !.psd = <<new_psd>>]
             e == Get(params, "E_specific_kWhpt", DefaultEnergy)
         IN  [feed |-> feed,
              outputs |-> [product |-> prod],
              kpis |-> [E_specific_kWhpt |-> e]]

\* Cyclone.simulate handing the feed object out as overflow, its PSD moved
\* to the underflow
Cyclone_simulate_MovingPSD(params, feed) ==
    [feed |-> [feed EXCEPT !.psd = NoPSD],
     outputs |-> [overflow |-> [feed EXCEPT !.psd = NoPSD], underflow |-> feed],
     kpis |-> [UF_split |-> Get(params, "underflow_split", DefaultSplit)]]

\* Cyclone.simulate reading the split from the cut size, a name the contract
\* table accepts
Cyclone_simulate_ReadsCut(params, feed) ==
    [feed |-> feed,
     outputs |-> [overflow |-> feed, underflow |-> feed],
     kpis |-> [UF_split |-> Get(params, "d50c_um", DefaultSplit)]]

Cyclone_simulate(params, feed) ==
    [feed |-> feed,
     outputs |-> [overflow |-> feed, underflow |-> feed],
     kpis |-> [UF_split |-> Get(params, "underflow_split", DefaultSplit)]]

LIMS_simulate(params, feed) ==
    [feed |-> feed,
     outputs |-> [concentrate |-> feed, tailings |-> feed],
     kpis |-> [mag_rec |-> Get(params, "mag_recovery", DefaultMagRec)]]

Flotation_simulate(params, feed) ==
    [feed |-> feed,
     outputs |-> [froth |-> feed, tail |-> feed],
     kpis |-> [k |-> Get(params, "k", DefaultK)]]

Leach_simulate(params, feed) ==
    [feed |-> feed,
     outputs |-> [pregnant |-> feed, residue |-> feed],
     kpis |-> [ext |-> Get(params, "extraction", DefaultExt)]]

Thickener_simulate(params, feed) ==
    [feed |-> feed,
     outputs |-> [underflow |-> feed, overflow |-> feed],
     kpis |-> [flux |-> Flux]]

UNIT_REGISTRY ==
    [mill |-> "Mill", cyclone |-> "Cyclone", lims |-> "LIMS",
     flotation |-> "Flotation", leach |-> "Leach", thickener |-> "Thickener"]

\* every behaviour handing out copies of the feed
simulate_returns_feed_Copies(cls, feed) ==
    CASE cls = "Mill" -> [product |-> FALSE]
      [] cls = "Cyclone" -> [overflow |-> FALSE, underflow |-> FALSE]
      [] cls = "LIMS" -> [concentrate |-> FALSE, tailings |-> FALSE]
      [] cls = "Flotation" -> [froth |-> FALSE, tail |-> FALSE]
      [] cls = "Leach" -> [pregnant |-> FALSE, residue |-> FALSE]
      [] cls = "Thickener" -> [underflow |-> FALSE, overflow |-> FALSE]

\* for each output of cls(...).simulate(feed=feed): whether it is the feed
\* object itself (Mill returns feed when it has no PSD) or a new Stream
\* (feed.copy(...))
simulate_returns_feed(cls, feed) ==
    CASE cls = "Mill" -> [product |-> feed.psd = NoPSD]
      [] cls = "Cyclone" -> [overflow |-> FALSE, underflow |-> FALSE]
      [] cls = "LIMS" -> [concentrate |-> FALSE, tailings |-> FALSE]
      [] cls = "Flotation" -> [froth |-> FALSE, tail |-> FALSE]
      [] cls = "Leach" -> [pregnant |-> FALSE, residue |-> FALSE]
      [] cls = "Thickener" -> [underflow |-> FALSE, overflow |-> FALSE]

\* cls(u.id, u.params).simulate(feed=feed)
simulate(cls, params, feed) ==
    CASE cls = "Mill" -> Mill_simulate(params, feed)
      [] cls = "Cyclone" -> Cyclone_simulate(params, feed)
      [] cls = "LIMS" -> LIMS_simulate(params, feed)
      [] cls = "Flotation" -> Flotation_simulate(params, feed)
      [] cls = "Leach" -> Leach_simulate(params, feed)
      [] cls = "Thickener" -> Thickener_simulate(params, feed)

-----------------------------------------------------------------------------
(* Execution engine *)

\* f"{u.id}.{k}"
KpiKey(id, k) == id \o <<".">> \o <<k>>

\* {f"{u.id}.{k}": v for k, v in res.kpis.items()}
PrefixedKpis(id, kpis) ==
    [key \in {KpiKey(id, k) : k \in DOMAIN kpis} |->
        kpis[CHOOSE k \in DOMAIN kpis : KpiKey(id, k) = key]]

\* the feed lookup falling back on the first declared stream
FeedIndex_FallbackFirst(streams, u) ==
    IF u.inputs = <<>> \/ streams = <<>> THEN 0
    ELSE LET hits == {i \in DOMAIN streams : streams[i].name = u.inputs[1]}
         IN  IF hits = {} THEN 1 ELSE Min(hits)

\* next((s for s in fs.streams if s.name == feed_name), None): its index, 0 for None
FeedIndex(streams, u) ==
    IF u.inputs = <<>> THEN 0
    ELSE LET hits == {i \in DOMAIN streams : streams[i].name = u.inputs[1]}
         IN  IF hits = {} THEN 0 ELSE Min(hits)

\* the estimator taking the largest contributor for the total
estimate_opex_LargestOnly(unit_kpis) ==
    IF DOMAIN unit_kpis = {} THEN 0
    ELSE LET vs == {unit_kpis[k] : k \in DOMAIN unit_kpis}
         IN  CHOOSE m \in vs : \A n \in vs : n <= m

\* estimate_opex_kwh_reagents
estimate_opex_kwh_reagents(unit_kpis) == SumValues(unit_kpis)

\* the loop body handing the first output of the unit on: the declared
\* stream that the unit's first output names takes the content of that output
RunUnit_Chained(units, i, acc) ==
    LET u == units[i]
    IN  IF u.type \notin DOMAIN UNIT_REGISTRY THEN acc
        ELSE LET idx == FeedIndex(acc.streams, u)
             IN  IF idx = 0 THEN acc
                 ELSE LET res == simulate(UNIT_REGISTRY[u.type], u.params, acc.streams[idx])
                          out == res.outputs[CHOOSE role \in DOMAIN res.outputs : TRUE]
                      IN  [streams |->
                              [j \in DOMAIN acc.streams |->
                                  IF u.outputs # <<>> /\ acc.streams[j].name = u.outputs[1]
                                  THEN [acc.streams[j] EXCEPT !.psd = out.psd]
                                  ELSE acc.streams[j]],
                           kpis |-> Update(acc.kpis, PrefixedKpis(u.id, res.kpis)),
                           log |-> Append(acc.log, i)]

\* One pass of the loop of run_once over unit i; acc holds the streams of the
\* flowsheet, kpis_agg and the simulate calls made so far
RunUnit(units, i, acc) ==
    LET u == units[i]
    IN  IF u.type \notin DOMAIN UNIT_REGISTRY THEN acc
        ELSE LET idx == FeedIndex(acc.streams, u)
             IN  IF idx = 0 THEN acc
                 ELSE LET res == simulate(UNIT_REGISTRY[u.type], u.params, acc.streams[idx])
                      IN  [streams |-> [acc.streams EXCEPT ![idx] = res.feed],
                           kpis |-> Update(acc.kpis, PrefixedKpis(u.id, res.kpis)),
                           log |-> Append(acc.log, i)]

RECURSIVE RunUnits(_, _, _)
RunUnits(units, i, acc) ==
    IF i > Len(units) THEN acc
    ELSE RunUnits(units, i + 1, RunUnit(units, i, acc))

\* Orchestrator.run_once(f): the mapping returned, the flowsheet as the call
\* leaves it, and the simulate calls made
run_once(f) ==
    LET c == Critic_check(f)
    IN  IF ~c[1]
        THEN [ret |-> [status |-> "invalid", reason |-> c[2]],
              fs |-> f,
              log |-> <<>>]
        ELSE LET acc == RunUnits(f.units, 1,
                                 [streams |-> f.streams, kpis |-> EmptyDict, log |-> <<>>])
                 opex == estimate_opex_kwh_reagents(acc.kpis)
             IN  [ret |-> [status |-> "ok", kpis |-> acc.kpis, OPEX_score |-> opex],
                  fs |-> [f EXCEPT !.streams = acc.streams],
                  log |-> acc.log]

-----------------------------------------------------------------------------
(* Local suggestion step.  random.random() is a choice: every value that the *)
(* factor 0.9 + 0.2 * random.random(), a number of [0.9, 1.1), can give on   *)
(* the grid of tenths.                                                       *)

\* float(v) * (0.9 + 0.2 * random.random()): the values it may give
Perturbed(v) ==
    IF v = 0 THEN {0}
    ELSE IF v > 0
    THEN {x \in 0..(2 * v) : 9 * v <= 10 * x /\ 10 * x < 11 * v}
    ELSE {x \in (2 * v)..0 : 11 * v < 10 * x /\ 10 * x <= 9 * v}

\* SimpleOptimizer.suggest_edit: the mappings it may return (every value of
\* a params mapping is a float)
suggest_edit(unit_params) ==
    {out \in [DOMAIN unit_params -> UNION {Perturbed(unit_params[k]) : k \in DOMAIN unit_params}] :
        \A k \in DOMAIN unit_params : out[k] \in Perturbed(unit_params[k])}

\* suggest editing the parameters of every unit
suggest_AllUnits(f) ==
    {[f EXCEPT !.units = us] :
        us \in {w \in [DOMAIN f.units -> UNION {{[f.units[i] EXCEPT !.params = p] :
                                                   p \in suggest_edit(f.units[i].params)} :
                                                i \in DOMAIN f.units}] :
                  \A i \in DOMAIN f.units :
                     \E p \in suggest_edit(f.units[i].params) :
                        w[i] = [f.units[i] EXCEPT !.params = p]}}

\* Orchestrator.suggest(f): the flowsheets the call may leave (it edits f
\* itself and returns it)
suggest(f) ==
    IF f.units = <<>> THEN {f}
    ELSE {[f EXCEPT !.units[1].params = p] : p \in suggest_edit(f.units[1].params)}

-----------------------------------------------------------------------------
(* Full-pipeline design orchestration.  An optional value (None or a number) *)
(* is a sequence of at most one number.                                      *)

None == <<>>

Penalty == 1000000000       \* 1e9

\* d without the key k
Without(d, k) == [j \in (DOMAIN d) \ {k} |-> d[j]]

\* d[k] = v
Set(d, k, v) == [j \in (DOMAIN d) \cup {k} |-> IF j = k THEN v ELSE d[j]]

\* KineticsAgent.__init__ renaming the key in a copy of the dict it is given
KineticsAgent_init_OnCopy(state) == state

\* KineticsAgent.__init__ on a dict state: the key mineral_spec is renamed
KineticsAgent_init(state) ==
    IF "mineral_spec" \in DOMAIN state
    THEN Set(Without(state, "mineral_spec"), "mineralSpec", state["mineral_spec"])
    ELSE state

\* ReactorDesignAgent.define_state(**initial_conditions): the call binds when
\* every parameter without a default is given and no other name is
DefineStateRequired == {"T_C", "p_bar", "mineral_spec"}
DefineStateOptional == {"w_r", "c_r", "salinity_g_kg", "pH", "charge", "mineral_spec_type"}

BindsDefineState(kwargs) ==
    /\ DefineStateRequired \subseteq DOMAIN kwargs
    /\ DOMAIN kwargs \subseteq DefineStateRequired \cup DefineStateOptional

\* KineticsAgent.run_simulation(**simulation_params): all of its parameters
\* have defaults
RunSimulationParams == {"duration", "n_points", "stopping_criteria"}

BindsRunSimulation(kwargs) == DOMAIN kwargs \subseteq RunSimulationParams

\* design_process catching what its collaborators raise and returning the
\* penalty for the levelized cost
design_process_Absorbing(initial_conditions, simulation_params, env) ==
    LET sp == Without(simulation_params, "constraint")
        ic == KineticsAgent_init(initial_conditions)
    IN  [raised |-> FALSE,
         calls |-> <<"define_state", "run_simulation", "calculate_lcop">>,
         ic |-> ic, sp |-> sp,
         constraint |-> Get(simulation_params, "constraint", "TP"),
         lcop |-> IF env.fail = "none" THEN env.lcop ELSE Penalty]

\* design_process computing the cost before it runs the simulation
design_process_CostFirst(initial_conditions, simulation_params, env) ==
    IF env.fail = "define_state" \/ ~BindsDefineState(initial_conditions)
    THEN [raised |-> TRUE, calls |-> <<"define_state">>,
          ic |-> initial_conditions, sp |-> simulation_params]
    ELSE LET constraint == Get(simulation_params, "constraint", "TP")
             sp == Without(simulation_params, "constraint")
             ic == KineticsAgent_init(initial_conditions)
         IN  IF env.fail = "calculate_lcop"
             THEN [raised |-> TRUE, calls |-> <<"define_state", "calculate_lcop">>,
                   ic |-> initial_conditions, sp |-> simulation_params]
             ELSE IF env.fail = "run_simulation" \/ ~BindsRunSimulation(sp)
             THEN [raised |-> TRUE,
                   calls |-> <<"define_state", "calculate_lcop", "run_simulation">>,
                   ic |-> ic, sp |-> sp]
             ELSE [raised |-> FALSE,
                   calls |-> <<"define_state", "calculate_lcop", "run_simulation">>,
                   ic |-> ic, sp |-> sp, constraint |-> constraint, lcop |-> env.lcop]

\* OrchestratorAgent.design_process.  env is what the collaborators do in
\* this call: env.fail names the collaborator call that raises ("none" when
\* all succeed), env.lcop is the levelized cost the cost model computes.
\* The result holds the collaborator calls made, in order, and the two
\* argument mappings as the call leaves them.
design_process(initial_conditions, simulation_params, env) ==
    IF env.fail = "define_state" \/ ~BindsDefineState(initial_conditions)
    THEN [raised |-> TRUE, calls |-> <<"define_state">>,
          ic |-> initial_conditions, sp |-> simulation_params]
    ELSE LET constraint == Get(simulation_params, "constraint", "TP")
             sp == Without(simulation_params, "constraint")
             ic == KineticsAgent_init(initial_conditions)
         IN  IF env.fail = "run_simulation" \/ ~BindsRunSimulation(sp)
             THEN [raised |-> TRUE, calls |-> <<"define_state", "run_simulation">>,
                   ic |-> ic, sp |-> sp]
             ELSE IF env.fail = "calculate_lcop"
             THEN [raised |-> TRUE,
                   calls |-> <<"define_state", "run_simulation", "calculate_lcop">>,
                   ic |-> ic, sp |-> sp]
             ELSE [raised |-> FALSE,
                   calls |-> <<"define_state", "run_simulation", "calculate_lcop">>,
                   ic |-> ic, sp |-> sp, constraint |-> constraint, lcop |-> env.lcop]

\* An instance of a collaborator class is named by its class and by the
\* method of OrchestratorAgent that constructed it
Instance(class, method) == <<class, method>>

\* no OrchestratorAgent was constructed
NoAgent == [reactor_agent |-> None, kinetics_agent |-> None, economics_agent |-> None]

\* OrchestratorAgent.__init__
OrchestratorAgent_init ==
    [reactor_agent |-> Instance("ReactorDesignAgent", "__init__"),
     kinetics_agent |-> None,
     economics_agent |-> Instance("EconomicsAgent", "__init__")]

\* design_process keeping the KineticsAgent it holds, when it holds one
design_process_constructs_KeepKinetics(self, made) ==
    (IF Len(made) >= 2 /\ self.kinetics_agent = None THEN <<"KineticsAgent">> ELSE <<>>)
    \o (IF Len(made) >= 3 THEN <<"EconomicsAgent">> ELSE <<>>)

\* design_process, the collaborator instances it constructs, in order: made
\* is the collaborator calls it makes.  KineticsAgent(...) is reached when
\* define_state has returned, EconomicsAgent(...) when run_simulation has.
design_process_constructs(self, made) ==
    (IF Len(made) >= 2 THEN <<"KineticsAgent">> ELSE <<>>)
    \o (IF Len(made) >= 3 THEN <<"EconomicsAgent">> ELSE <<>>)

\* design_process, the collaborators it leaves in self: each instance it
\* constructs is assigned to the attribute of its class
design_process_collaborators(self, made) ==
    [reactor_agent |-> self.reactor_agent,
     kinetics_agent |-> IF Len(made) >= 2
                        THEN Instance("KineticsAgent", "design_process")
                        ELSE self.kinetics_agent,
     economics_agent |-> IF Len(made) >= 3
                         THEN Instance("EconomicsAgent", "design_process")
                         ELSE self.economics_agent]

\* update_params replacing the mapping by the new parameters
EconomicsAgent_update_params_Replace(cost_params, new_params) == new_params

\* EconomicsAgent.update_params: self.cost_params.update(new_params)
EconomicsAgent_update_params(cost_params, new_params) == Update(cost_params, new_params)

\* design_process, step 3 up to the cost computation, reached when
\* run_simulation has returned: what it does to the mapping the
\* EconomicsAgent of self holds.  That mapping is the one of the module
\* (default_cost_params) in every call: __init__ gives the first
\* EconomicsAgent none of its own, and each call hands the mapping of the
\* EconomicsAgent it replaces to the new one.  econ is economic_params: None
\* (no argument) or a mapping; an empty mapping updates nothing.
design_process_cost_params(cost_params, econ, made) ==
    IF Len(made) >= 3 /\ econ # None /\ DOMAIN econ[1] # {}
    THEN EconomicsAgent_update_params(cost_params, econ[1])
    ELSE cost_params

\* optimize_process, the loop that prepares the initial guess: the variables
\* from index i on, x the initial guess assembled so far
RECURSIVE PrepareGuess(_, _, _, _, _)
PrepareGuess(base_ic, base_sp, variables, i, x) ==
    IF i > Len(variables) THEN [ok |-> TRUE, x0 |-> x]
    ELSE LET var == variables[i]
             path == var.path
             known == path[1] \in {"initial_conditions", "simulation_params"}
             val == IF var.has_initial_value THEN var.initial_value
                    ELSE IF path[1] = "initial_conditions"
                         THEN IF path[2] \in DOMAIN base_ic THEN <<base_ic[path[2]]>> ELSE None
                    ELSE IF path[1] = "simulation_params"
                         THEN IF path[2] \in DOMAIN base_sp THEN <<base_sp[path[2]]>> ELSE None
                    ELSE None
         IN  IF ~var.has_initial_value /\ ~known
             THEN [ok |-> FALSE, error |-> <<"Unknown path root", path[1]>>]
             ELSE IF val = None
             THEN [ok |-> FALSE, error |-> <<"Could not find initial value for", var.name>>]
             ELSE PrepareGuess(base_ic, base_sp, variables, i + 1, Append(x, val[1]))

\* objective_function, its loop: the copies of the base dictionaries with the
\* entries the paths address overwritten by the trial vector
RECURSIVE ApplyTrial(_, _, _, _, _)
ApplyTrial(ic, sp, variables, x, i) ==
    IF i > Len(variables) THEN [ic |-> ic, sp |-> sp]
    ELSE LET path == variables[i].path
         IN  IF path[1] = "initial_conditions"
             THEN ApplyTrial(Set(ic, path[2], x[i]), sp, variables, x, i + 1)
             ELSE IF path[1] = "simulation_params"
             THEN ApplyTrial(ic, Set(sp, path[2], x[i]), variables, x, i + 1)
             ELSE ApplyTrial(ic, sp, variables, x, i + 1)

\* objective_function without its try/except
objective_function_NoCatch(base_ic, base_sp, variables, x, env) ==
    LET cur == ApplyTrial(base_ic, base_sp, variables, x, 1)
        r == design_process(cur.ic, cur.sp, env)
    IN  IF r.raised
        THEN [raised |-> TRUE, args |-> cur, dp |-> r,
              base_ic |-> base_ic, base_sp |-> base_sp]
        ELSE [raised |-> FALSE, value |-> r.lcop, args |-> cur, dp |-> r,
              base_ic |-> base_ic, base_sp |-> base_sp]

\* objective_function whose except branch returns 0.0 for the failed point
objective_function_NoPenalty(base_ic, base_sp, variables, x, env) ==
    LET cur == ApplyTrial(base_ic, base_sp, variables, x, 1)
        r == design_process(cur.ic, cur.sp, env)
    IN  [raised |-> FALSE, value |-> IF r.raised THEN 0 ELSE r.lcop,
         args |-> cur, dp |-> r, base_ic |-> base_ic, base_sp |-> base_sp]

\* objective_function working on the base dictionaries themselves, no copies
objective_function_NoCopy(base_ic, base_sp, variables, x, env) ==
    LET cur == ApplyTrial(base_ic, base_sp, variables, x, 1)
        r == design_process(cur.ic, cur.sp, env)
    IN  [raised |-> FALSE, value |-> IF r.raised THEN Penalty ELSE r.lcop,
         args |-> cur, dp |-> r, base_ic |-> r.ic, base_sp |-> r.sp]

\* objective_function(x): what it returns, the arguments it gave
\* design_process, what that call did, and the base dictionaries as the
\* evaluation leaves them (it works on copies of them)
objective_function(base_ic, base_sp, variables, x, env) ==
    LET cur == ApplyTrial(base_ic, base_sp, variables, x, 1)
        r == design_process(cur.ic, cur.sp, env)
    IN  IF r.raised
        THEN [raised |-> FALSE, value |-> Penalty, args |-> cur, dp |-> r,
              base_ic |-> base_ic, base_sp |-> base_sp]
        ELSE [raised |-> FALSE, value |-> r.lcop, args |-> cur, dp |-> r,
              base_ic |-> base_ic, base_sp |-> base_sp]

\* OptimizationAgent.optimize, the mapping it builds from the minimizer's result
OptimizeResult(success, b, iterations, evaluations) ==
    [status |-> "returned",
     success |-> success,
     message |-> IF success THEN "converged" ELSE "stopped",
     optimized_params |-> b.x,
     min_value |-> b.fun,
     n_iterations |-> iterations,
     n_evaluations |-> evaluations]

-----------------------------------------------------------------------------
(* Inputs *)

\* every parameter name of the contract table, and one that is in no contract
ParamKeys ==
    UNION {Range(UNIT_PARAM_SPEC[t].req) \cup Range(UNIT_PARAM_SPEC[t].opt) :
              t \in DOMAIN UNIT_PARAM_SPEC} \cup {"foo"}

\* the value a description gives a parameter (validation reads names only)
ParamValue(k) ==
    CASE k = "fineness_factor" -> 5
      [] k = "E_specific_kWhpt" -> 30
      [] OTHER -> 1

\* type tags: those of the contract table, those of the dispatch registry, one of neither
UnitTypes == (DOMAIN UNIT_PARAM_SPEC) \cup (DOMAIN UNIT_REGISTRY) \cup {"bogus"}

Items(keys) == [i \in DOMAIN keys |-> <<keys[i], ParamValue(keys[i])>>]

Desc(id, type, has_params, keys, inputs, outputs) ==
    [id |-> id, type |-> type, has_params |-> has_params, params |-> Items(keys),
     inputs |-> inputs, outputs |-> outputs]

\* the descriptions of one unit, of at most n parameters, handed to UnitOp(...)
SchemaDescs(n) ==
    {Desc(<<"a">>, t, TRUE, ks, <<"feed">>, <<"prod">>) :
        t \in UnitTypes, ks \in SeqsNoDup(ParamKeys, n)}
    \cup {Desc(<<"a">>, t, FALSE, <<>>, <<"feed">>, <<"prod">>) : t \in UnitTypes}

UnitIds == {<<"a">>, <<"b">>}

\* <<type, params given?, parameter names>> of the units of the flowsheets run
EngineKinds ==
    {<<"mill", TRUE, <<"fineness_factor">> >>,
     <<"mill", TRUE, <<"fineness_factor", "E_specific_kWhpt">> >>,
     <<"mill", TRUE, <<"E_specific_kWhpt">> >>,
     <<"cyclone", TRUE, <<"d50c_um">> >>,
     <<"flotation_bank", TRUE, <<"k_s_1ps", "R_inf">> >>,
     <<"leach", TRUE, <<>> >>,
     <<"leach", FALSE, <<>> >>}

\* <<inputs, outputs>> of those units
EngineWiring ==
    {<< <<"feed">>, <<"prod">> >>, << <<"ghost">>, <<"prod">> >>,
     << <<>>, <<"prod">> >>, << <<"feed">>, <<>> >>}

EngineDescs ==
    {Desc(id, k[1], k[2], k[3], w[1], w[2]) :
        id \in UnitIds, k \in EngineKinds, w \in EngineWiring}

FeedPSD == Stream("feed", <<PSD(<<100, 50>>, <<5, 5>>)>>)
FeedPlain == Stream("feed", NoPSD)
Prod == Stream("prod", NoPSD)

StreamLists ==
    {<<FeedPSD, Prod>>, <<FeedPlain, Prod>>, <<FeedPlain, FeedPSD, Prod>>}

\* load_flowsheet: units = [UnitOp(u) for u in data["units"]], then Flowsheet(...)
load_flowsheet(unit_descs, streams) ==
    IF \E i \in DOMAIN unit_descs : UnitOp(unit_descs[i]).status # "ok"
    THEN [status |-> "error"]
    ELSE [status |-> "ok",
          fs |-> [units |-> [i \in DOMAIN unit_descs |-> UnitOp(unit_descs[i]).unit],
                  streams |-> streams]]

\* the units that UnitOp(...) constructs from EngineDescs
EngineUnits == {UnitOp(d).unit : d \in {e \in EngineDescs : UnitOp(e).status = "ok"}}

\* the flowsheets of at most n units that load_flowsheet constructs
Flowsheets(n) ==
    {[units |-> us, streams |-> ss] :
        us \in UNION {[1..m -> EngineUnits] : m \in 0..n}, ss \in StreamLists}

-----------------------------------------------------------------------------
(* The parts of the state a specification leaves alone *)

NoResult == [status |-> "none"]

SchemaIdle ==
    /\ uDesc = Desc(<<"a">>, "mill", FALSE, <<>>, <<>>, <<>>)
    /\ uOut = NoResult

EngineIdle ==
    /\ fs = [units |-> <<>>, streams |-> <<>>]
    /\ result = NoResult
    /\ simLog = <<>>
    /\ lastOp = "idle"
    /\ calls = 0

OptIdle ==
    /\ optVars = <<>>
    /\ baseIC = EmptyDict
    /\ baseSP = EmptyDict
    /\ maxIter = 0
    /\ pc = "idle"
    /\ x0 = <<>>
    /\ nit = 0
    /\ nfev = 0
    /\ evInIter = 0
    /\ vals = {}
    /\ best = [x |-> <<>>, fun |-> 0]
    /\ lastDp = [outcome |-> "none"]
    /\ dpCalls = 0
    /\ dpReturned = 0
    /\ ret = NoResult
    /\ agent = NoAgent
    /\ default_cost_params = EmptyDict
    /\ economic_params = None

-----------------------------------------------------------------------------
(* SchemaSpec: one UnitOp(description) call *)

SchemaInit ==
    /\ uDesc \in SchemaDescs(MaxParams)
    /\ uOut = NoResult
    /\ EngineIdle
    /\ OptIdle

Construct ==
    /\ uOut.status = "none"
    /\ uOut' = UnitOp(uDesc)
    /\ UNCHANGED <<uDesc, engineVars, optVarsAll>>

SchemaNext == Construct

SchemaSpec == SchemaInit /\ [][SchemaNext]_vars

-----------------------------------------------------------------------------
(* PSDSpec: one PSD(...) call *)

\* mass fractions in hundredths: around 0, a half and 1, a negative one included
MassFracValues == {-1, 0, 1, 49, 50, 51, 98, 99, 100, 101, 102}

\* the PSD descriptions of at most n bins
PSDDescs(n) ==
    {[bins_um |-> [i \in DOMAIN mf |-> 100 * (Len(mf) + 1 - i)], mass_frac |-> mf] :
        mf \in UNION {[1..m -> MassFracValues] : m \in 0..n}}

PSDInit ==
    /\ uDesc \in PSDDescs(MaxBins)
    /\ uOut = NoResult
    /\ EngineIdle
    /\ OptIdle

ConstructPSD ==
    /\ uOut.status = "none"
    /\ uOut' = PSD_construct(uDesc)
    /\ UNCHANGED <<uDesc, engineVars, optVarsAll>>

PSDNext == ConstructPSD

PSDSpec == PSDInit /\ [][PSDNext]_vars

-----------------------------------------------------------------------------
(* Spec: run_once calls on one constructed Flowsheet *)

Init ==
    /\ fs \in Flowsheets(MaxUnits)
    /\ result = NoResult
    /\ simLog = <<>>
    /\ lastOp = "construct"
    /\ calls = 0
    /\ SchemaIdle
    /\ OptIdle

RunOnce ==
    /\ lastOp \notin {"idle", "load_failed"}
    /\ calls < MaxCalls
    /\ LET r == run_once(fs)
       IN  /\ result' = r.ret
           /\ fs' = r.fs
           /\ simLog' = r.log
    /\ lastOp' = "run_once"
    /\ calls' = calls + 1
    /\ UNCHANGED <<schemaVars, optVarsAll>>

Next == RunOnce

Spec == Init /\ [][Next]_vars

-----------------------------------------------------------------------------
(* GraphSpec: a flowsheet description is loaded, and the flowsheet          *)
(* constructed is then checked (validate_graph, Critic.check) and run by    *)
(* its holder, in any order.                                                *)

\* <<inputs, outputs>> of the units described: declared and undeclared
\* stream names, on either side
GraphInputs == {<<>>, <<"feed">>, <<"prod">>, <<"ghost">>}
GraphOutputs == {<<>>, <<"prod">>, <<"feed">>, <<"void">>}

\* the id of the unit described at position i
GraphId(i) == <<"u", ToString(i)>>

\* the unit descriptions of a flowsheet file of m units
GraphUnitDescs(m) ==
    {[i \in 1..m |-> Desc(GraphId(i), "mill", TRUE, <<"fineness_factor">>, w[i][1], w[i][2])] :
        w \in [1..m -> GraphInputs \X GraphOutputs]}

GraphStreamLists == {<<>>, <<FeedPSD>>, <<Prod>>, <<FeedPSD, Prod>>}

\* the flowsheet files of at most n units
GraphDescs(n) ==
    {[units |-> us, streams |-> ss] :
        us \in UNION {GraphUnitDescs(m) : m \in 0..n}, ss \in GraphStreamLists}

GraphInit ==
    /\ uDesc \in GraphDescs(MaxUnits)
    /\ uOut = NoResult
    /\ EngineIdle
    /\ OptIdle

\* load_flowsheet(path): no structural test is made, validate_graph is not called
LoadFlowsheet ==
    /\ lastOp = "idle"
    /\ LET r == load_flowsheet(uDesc.units, uDesc.streams)
       IN  IF r.status = "ok"
           THEN fs' = r.fs /\ lastOp' = "construct"
           ELSE fs' = fs /\ lastOp' = "load_failed"
    /\ UNCHANGED <<result, simLog, calls, schemaVars, optVarsAll>>

\* fs.validate_graph()
ValidateGraph ==
    /\ lastOp \notin {"idle", "load_failed"}
    /\ result' = validate_graph(fs)
    /\ lastOp' = "validate_graph"
    /\ UNCHANGED <<fs, simLog, calls, schemaVars, optVarsAll>>

\* Critic().check(fs)
Check ==
    /\ lastOp \notin {"idle", "load_failed"}
    /\ LET c == Critic_check(fs)
       IN  result' = [status |-> "checked", ok |-> c[1], message |-> c[2]]
    /\ lastOp' = "check"
    /\ UNCHANGED <<fs, simLog, calls, schemaVars, optVarsAll>>

GraphNext == LoadFlowsheet \/ ValidateGraph \/ Check \/ RunOnce

GraphSpec == GraphInit /\ [][GraphNext]_vars

-----------------------------------------------------------------------------
(* SuggestSpec: suggest calls on one constructed Flowsheet *)

\* the units of EngineUnits that are wired from feed to prod
WiredUnits == {u \in EngineUnits : u.inputs = <<"feed">> /\ u.outputs = <<"prod">>}

\* the flowsheets of at most n such units
SuggestFlowsheets(n) ==
    {[units |-> us, streams |-> ss] :
        us \in UNION {[1..m -> WiredUnits] : m \in 0..n}, ss \in StreamLists}

SuggestInit ==
    /\ fs \in SuggestFlowsheets(MaxUnits)
    /\ result = NoResult
    /\ simLog = <<>>
    /\ lastOp = "construct"
    /\ calls = 0
    /\ SchemaIdle
    /\ OptIdle

Suggest ==
    /\ lastOp \notin {"idle", "load_failed"}
    /\ calls < MaxCalls
    /\ fs' \in suggest(fs)
    /\ lastOp' = "suggest"
    /\ calls' = calls + 1
    /\ UNCHANGED <<result, simLog, schemaVars, optVarsAll>>

SuggestNext == Suggest

SuggestSpec == SuggestInit /\ [][SuggestNext]_vars

-----------------------------------------------------------------------------
(* LoopSpec: the calls of scripts/run_loop.py (run_once(fs), then            *)
(* fs2 = suggest(fs), then run_once(fs2)) on one constructed Flowsheet, in   *)
(* any order and number                                                      *)

\* the description d with every parameter value multiplied by c
Scaled(d, c) ==
    [d EXCEPT !.params = [i \in DOMAIN d.params |-> <<d.params[i][1], c * d.params[i][2]>>]]

\* the unit descriptions of the flowsheet files: mills with and without
\* params, cyclones and magnetic separators of two parameter values each,
\* and a mill without inputs
LoopDescs ==
    {Desc(<<"a">>, "mill", TRUE, <<"fineness_factor", "E_specific_kWhpt">>, <<"feed">>, <<"prod">>),
     Desc(<<"b">>, "mill", FALSE, <<>>, <<"feed">>, <<"prod">>),
     Desc(<<"b">>, "mill", TRUE, <<"fineness_factor">>, <<>>, <<"prod">>)}
    \cup {Scaled(Desc(<<"a">>, "cyclone", TRUE, <<"d50c_um">>, <<"feed">>, <<"prod">>), c) :
             c \in {1, 10}}
    \cup {Scaled(Desc(<<"b">>, "lims", TRUE, <<"magnetic_recovery">>, <<"feed">>, <<"prod">>), c) :
             c \in {1, 10}}

\* the units that UnitOp(...) constructs from them
LoopUnits == {UnitOp(d).unit : d \in {e \in LoopDescs : UnitOp(e).status = "ok"}}

\* the flowsheets of at most n such units
LoopFlowsheets(n) ==
    {[units |-> us, streams |-> ss] :
        us \in UNION {[1..m -> LoopUnits] : m \in 0..n}, ss \in StreamLists}

LoopInit ==
    /\ fs \in LoopFlowsheets(MaxUnits)
    /\ result = NoResult
    /\ simLog = <<>>
    /\ lastOp = "construct"
    /\ calls = 0
    /\ SchemaIdle
    /\ OptIdle

\* Orchestrator.suggest editing a copy of the flowsheet and returning the copy
suggest_returns_Copy(f) ==
    {[fs |-> f, ret |-> g, same |-> FALSE] : g \in suggest(f)}

\* fs2 = orch.suggest(f): the flowsheet f as the call leaves it, the
\* flowsheet returned, and whether the one returned is the object f itself
\* (planner.py:57 returns its argument)
suggest_returns(f) ==
    {[fs |-> g, ret |-> g, same |-> TRUE] : g \in suggest(f)}

\* fs2 = orch.suggest(fs); result holds what the call returned
SuggestCall ==
    /\ lastOp \notin {"idle", "load_failed"}
    /\ calls < MaxCalls
    /\ \E r \in suggest_returns(fs) :
          /\ fs' = r.fs
          /\ result' = [status |-> "suggested", fs2 |-> r.ret, same |-> r.same]
    /\ lastOp' = "suggest"
    /\ calls' = calls + 1
    /\ UNCHANGED <<simLog, schemaVars, optVarsAll>>

LoopNext == SuggestCall \/ RunOnce

LoopSpec == LoopInit /\ [][LoopNext]_vars

-----------------------------------------------------------------------------
(* UnitSpec: the behaviour of one unit, called directly on a stream of the  *)
(* flowsheet (cls(u.id, u.params).simulate(feed=s)) and through run_once    *)

\* <<type, params given?, parameter names>>: every registered behaviour
BehaviourKinds ==
    {<<"mill", FALSE, <<>> >>,
     <<"mill", TRUE, <<"fineness_factor">> >>,
     <<"mill", TRUE, <<"fineness_factor", "E_specific_kWhpt">> >>,
     <<"cyclone", FALSE, <<>> >>,
     <<"cyclone", TRUE, <<"d50c_um">> >>,
     <<"lims", FALSE, <<>> >>,
     <<"lims", TRUE, <<"magnetic_recovery">> >>,
     <<"flotation", FALSE, <<>> >>,
     <<"leach", FALSE, <<>> >>,
     <<"thickener", FALSE, <<>> >>}

\* the units that UnitOp(...) constructs of these kinds
BehaviourUnits ==
    {UnitOp(Desc(id, k[1], k[2], k[3], <<"feed">>, <<"prod">>)).unit :
        id \in UnitIds, k \in BehaviourKinds}

FeedPSD3 == Stream("feed", <<PSD(<<200, 100, 50>>, <<2, 3, 5>>)>>)

UnitStreamLists == {<<FeedPSD>>, <<FeedPlain>>, <<FeedPSD3, Prod>>}

UnitInit ==
    /\ fs \in {[units |-> <<u>>, streams |-> ss] : u \in BehaviourUnits, ss \in UnitStreamLists}
    /\ result = NoResult
    /\ simLog = <<>>
    /\ lastOp = "construct"
    /\ calls = 0
    /\ SchemaIdle
    /\ OptIdle

\* UNIT_REGISTRY[u.type](u.id, u.params).simulate(feed=fs.streams[j])
Simulate ==
    /\ calls < MaxCalls
    /\ \E i \in DOMAIN fs.units, j \in DOMAIN fs.streams :
          /\ fs.units[i].type \in DOMAIN UNIT_REGISTRY
          /\ LET res == simulate(UNIT_REGISTRY[fs.units[i].type], fs.units[i].params,
                                 fs.streams[j])
             IN  /\ fs' = [fs EXCEPT !.streams[j] = res.feed]
                 /\ result' = [status |-> "simulated", unit |-> i, feed |-> j,
                               outputs |-> res.outputs, kpis |-> res.kpis,
                               is_feed |-> simulate_returns_feed(
                                              UNIT_REGISTRY[fs.units[i].type], fs.streams[j])]
    /\ simLog' = <<>>
    /\ lastOp' = "simulate"
    /\ calls' = calls + 1
    /\ UNCHANGED <<schemaVars, optVarsAll>>

UnitNext == Simulate \/ RunOnce

UnitSpec == UnitInit /\ [][UnitNext]_vars

-----------------------------------------------------------------------------
(* OptSpec: one optimize_process call.  The minimizer (scipy.optimize's      *)
(* minimize, called by OptimizationAgent.optimize) is modelled by its        *)
(* contract: it evaluates the objective at the initial guess, then runs at   *)
(* most maxiter iterations of at most EvalsPerIter evaluations each, one     *)
(* after the other, at points within the bounds, and reports the best point  *)
(* it evaluated.                                                             *)

BaseIC == [T_C |-> 60, p_bar |-> 10, mineral_spec |-> 1]
BaseSP == [n_points |-> 50, constraint |-> "TV"]

VarBounds == <<50, 100>>
TrialValues == {80}
LcopValues == {410}

\* the dotted paths of the variables: an entry of either base dictionary, an
\* entry that base_initial_conditions lacks, and an unknown root
VarPaths ==
    {<<"initial_conditions", "T_C">>, <<"simulation_params", "n_points">>,
     <<"initial_conditions", "absent">>, <<"bogus", "T_C">>}

\* a variable without initial_value, with initial_value None, with a number
OptVarChoices ==
    {[name |-> path, path |-> path, bounds |-> VarBounds,
      has_initial_value |-> h[1], initial_value |-> h[2]] :
        path \in VarPaths,
        h \in {<<FALSE, None>>, <<TRUE, None>>, <<TRUE, <<60>> >>}}

\* what the collaborators may do in one design_process call
DesignEnvs ==
    {[fail |-> f, lcop |-> 0] : f \in {"define_state", "run_simulation", "calculate_lcop"}}
    \cup {[fail |-> "none", lcop |-> v] : v \in LcopValues}

\* the points the minimizer may try
TrialPoints(variables) ==
    {x \in [1..Len(variables) -> TrialValues] :
        \A i \in 1..Len(variables) :
            variables[i].bounds[1] <= x[i] /\ x[i] <= variables[i].bounds[2]}

\* GeoH2.economics.default_cost_params as the module is loaded: the wage and
\* the energy price (the values stand for the module's)
DefaultCostParams == [c_wage |-> 30, c_energy |-> 5]

\* economic_params of a call: none, an empty mapping, a production target,
\* another one together with an energy price
EconomicParams ==
    {None, <<EmptyDict>>, <<[M_target_tonnes |-> 5000]>>,
     <<[M_target_tonnes |-> 1000, c_energy |-> 7]>>}

\* orchestrator = OrchestratorAgent(), and a call that passes no economic_params
AgentConstructed ==
    /\ agent = OrchestratorAgent_init
    /\ default_cost_params = DefaultCostParams
    /\ economic_params = None

OptInit ==
    /\ optVars \in UNION {[1..n -> OptVarChoices] : n \in 1..MaxVars}
    /\ baseIC = BaseIC
    /\ baseSP = BaseSP
    /\ maxIter \in 0..MaxIterBound
    /\ pc = "start"
    /\ x0 = <<>>
    /\ nit = 0
    /\ nfev = 0
    /\ evInIter = 0
    /\ vals = {}
    /\ best = [x |-> <<>>, fun |-> 0]
    /\ lastDp = [outcome |-> "none"]
    /\ dpCalls = 0
    /\ dpReturned = 0
    /\ ret = NoResult
    /\ AgentConstructed
    /\ SchemaIdle
    /\ EngineIdle

\* optimize_process up to the call of opt_agent.optimize
OptPrepare ==
    /\ pc = "start"
    /\ LET g == PrepareGuess(baseIC, baseSP, optVars, 1, <<>>)
       IN  IF g.ok
           THEN /\ pc' = "search"
                /\ x0' = g.x0
                /\ ret' = ret
           ELSE /\ pc' = "raised"
                /\ x0' = x0
                /\ ret' = [status |-> "raised", error |-> g.error]
    /\ UNCHANGED <<optVars, baseIC, baseSP, maxIter, nit, nfev, evInIter, vals, best,
                   lastDp, dpCalls, dpReturned, agentVars, schemaVars, engineVars>>

\* what is kept of the design_process call of an evaluation when its
\* collaborators are followed: the collaborator calls it made and the
\* instances it constructed
Followed(r, x) ==
    [outcome |-> IF r.dp.raised THEN "raised" ELSE "returned",
     x |-> x, args |-> r.args,
     calls |-> r.dp.calls,
     constructs |-> design_process_constructs(agent, r.dp.calls)]

\* one objective evaluation at x, the collaborators behaving as env
Evaluation(x, env, followed) ==
    LET r == objective_function(baseIC, baseSP, optVars, x, env)
    IN  /\ baseIC' = r.base_ic
        /\ baseSP' = r.base_sp
        /\ dpCalls' = dpCalls + 1
        /\ dpReturned' = IF r.dp.raised THEN dpReturned ELSE dpReturned + 1
        /\ nfev' = nfev + 1
        /\ IF r.raised
           THEN /\ pc' = "raised"
                /\ ret' = [status |-> "raised", error |-> <<"design_process", env.fail>>]
                /\ lastDp' = IF followed THEN Followed(r, x)
                             ELSE [outcome |-> "raised", x |-> x, args |-> r.args]
                /\ UNCHANGED <<vals, best>>
           ELSE /\ pc' = pc
                /\ ret' = ret
                /\ lastDp' = IF followed THEN Followed(r, x)
                             ELSE [outcome |-> IF r.dp.raised THEN "raised" ELSE "returned",
                                   x |-> x, args |-> r.args, value |-> r.value]
                /\ vals' = vals \cup {r.value}
                /\ best' = IF nfev = 0 \/ r.value < best.fun
                           THEN [x |-> x, fun |-> r.value] ELSE best
        /\ agent' = design_process_collaborators(agent, r.dp.calls)
        /\ default_cost_params' =
              design_process_cost_params(default_cost_params, economic_params, r.dp.calls)
        /\ economic_params' = economic_params

Evaluate(x, env) == Evaluation(x, env, FALSE)

\* the minimizer evaluates the objective at the initial guess
OptFirstEval ==
    /\ pc = "search"
    /\ nfev = 0
    /\ \E env \in DesignEnvs : Evaluate(x0, env)
    /\ UNCHANGED <<optVars, maxIter, x0, nit, evInIter, schemaVars, engineVars>>

\* the minimizer evaluates the objective at a trial point of an iteration
OptEval ==
    /\ pc = "search"
    /\ nfev >= 1
    /\ nit < maxIter
    /\ evInIter < EvalsPerIter
    /\ \E x \in TrialPoints(optVars), env \in DesignEnvs : Evaluate(x, env)
    /\ evInIter' = evInIter + 1
    /\ UNCHANGED <<optVars, maxIter, x0, nit, schemaVars, engineVars>>

\* the minimizer completes an iteration
OptIterate ==
    /\ pc = "search"
    /\ evInIter >= 1
    /\ nit' = nit + 1
    /\ evInIter' = 0
    /\ UNCHANGED <<optVars, baseIC, baseSP, maxIter, pc, x0, nfev, vals, best,
                   lastDp, dpCalls, dpReturned, ret, agentVars, schemaVars, engineVars>>

\* the minimizer stops (converged, or out of iterations) and optimize_process
\* returns the mapping OptimizationAgent.optimize builds
OptReturn ==
    /\ pc = "search"
    /\ nfev >= 1
    /\ evInIter = 0
    /\ pc' = "returned"
    /\ ret' = OptimizeResult(nit < maxIter, best, nit, nfev)
    /\ UNCHANGED <<optVars, baseIC, baseSP, maxIter, x0, nit, nfev, evInIter, vals, best,
                   lastDp, dpCalls, dpReturned, agentVars, schemaVars, engineVars>>

OptNext == OptPrepare \/ OptFirstEval \/ OptEval \/ OptIterate \/ OptReturn

OptSpec == OptInit /\ [][OptNext]_vars

\* the call runs on the caller's thread without blocking: it goes on while a
\* step is left to take
OptLive == OptSpec /\ WF_vars(OptNext)

-----------------------------------------------------------------------------
(* EvalSpec: the objective of one optimize_process call, evaluated by the   *)
(* minimizer at points of its choosing within the bounds.                   *)

ProbeValues == {70, 80}

\* variables that carry an initial value, on an entry of either base
\* dictionary, on an entry base_initial_conditions lacks and on an unknown root
EvalVarChoices ==
    {[name |-> path, path |-> path, bounds |-> VarBounds,
      has_initial_value |-> TRUE, initial_value |-> <<60>>] : path \in VarPaths}

\* what the collaborators may do in an evaluation: a failure before
\* design_process touches its arguments, one after, none
EvalEnvs == {env \in DesignEnvs : env.fail # "calculate_lcop"}

\* the points the minimizer may evaluate
ProbePoints(variables) ==
    {x \in [1..Len(variables) -> ProbeValues] :
        \A i \in 1..Len(variables) :
            variables[i].bounds[1] <= x[i] /\ x[i] <= variables[i].bounds[2]}

EvalInit ==
    /\ optVars \in UNION {[1..n -> EvalVarChoices] : n \in 1..MaxVars}
    /\ baseIC = BaseIC
    /\ baseSP = BaseSP
    /\ maxIter \in 0..MaxIterBound
    /\ pc = "start"
    /\ x0 = <<>>
    /\ nit = 0
    /\ nfev = 0
    /\ evInIter = 0
    /\ vals = {}
    /\ best = [x |-> <<>>, fun |-> 0]
    /\ lastDp = [outcome |-> "none"]
    /\ dpCalls = 0
    /\ dpReturned = 0
    /\ ret = NoResult
    /\ AgentConstructed
    /\ SchemaIdle
    /\ EngineIdle

\* the minimizer calls the objective at a point within the bounds; the calls
\* followed are those of the initial guess and of one point per iteration
OptProbe ==
    /\ pc = "search"
    /\ nfev <= maxIter
    /\ \E x \in ProbePoints(optVars), env \in EvalEnvs : Evaluate(x, env)
    /\ UNCHANGED <<optVars, maxIter, x0, nit, evInIter, schemaVars, engineVars>>

EvalNext == OptPrepare \/ OptProbe

EvalSpec == EvalInit /\ [][EvalNext]_vars

-----------------------------------------------------------------------------
(* DesignSpec: design_process called directly, by a caller that holds the   *)
(* two dictionaries and hands the same objects to each call.                *)

\* initial_conditions of the caller: complete, at two temperatures, and
\* without the mineral specification
DesignICs ==
    {BaseIC, [BaseIC EXCEPT !.T_C = 80], [BaseIC EXCEPT !.p_bar = 20],
     Without(BaseIC, "mineral_spec")}

\* simulation_params of the caller: with and without a constraint, and with
\* a name run_simulation does not take
DesignSPs ==
    {BaseSP, Without(BaseSP, "constraint"), Set(BaseSP, "solver", 1)}

\* economic_params of a direct call
DesignEconomicParams == {None, <<[M_target_tonnes |-> 5000]>>}

DesignInit ==
    /\ baseIC \in DesignICs
    /\ baseSP \in DesignSPs
    /\ pc = "design"
    /\ optVars = <<>>
    /\ maxIter = 0
    /\ x0 = <<>>
    /\ nit = 0
    /\ nfev = 0
    /\ evInIter = 0
    /\ vals = {}
    /\ best = [x |-> <<>>, fun |-> 0]
    /\ lastDp = [outcome |-> "none"]
    /\ dpCalls = 0
    /\ dpReturned = 0
    /\ ret = NoResult
    /\ AgentConstructed
    /\ SchemaIdle
    /\ EngineIdle

\* orchestrator.design_process(initial_conditions, simulation_params,
\* economic_params): the call works on the caller's dictionaries; what it
\* raises reaches the caller
DesignProcess ==
    /\ pc = "design"
    /\ dpCalls < MaxCalls
    /\ \E env \in DesignEnvs, econ \in DesignEconomicParams :
          LET r == design_process(baseIC, baseSP, env)
          IN  /\ baseIC' = r.ic
              /\ baseSP' = r.sp
              /\ dpCalls' = dpCalls + 1
              /\ agent' = design_process_collaborators(agent, r.calls)
              /\ default_cost_params' =
                    design_process_cost_params(default_cost_params, econ, r.calls)
              /\ lastDp' = [outcome |-> IF r.raised THEN "raised" ELSE "returned",
                            env |-> env, calls |-> r.calls,
                            constructs |-> design_process_constructs(agent, r.calls),
                            economic_params |-> econ,
                            args |-> [ic |-> baseIC, sp |-> baseSP]]
              /\ IF r.raised
                 THEN /\ dpReturned' = dpReturned
                      /\ ret' = [status |-> "raised",
                                 error |-> <<"design_process", r.calls[Len(r.calls)]>>]
                 ELSE /\ dpReturned' = dpReturned + 1
                      /\ ret' = [status |-> "returned", lcop |-> r.lcop]
    /\ UNCHANGED <<optVars, maxIter, pc, x0, nit, nfev, evInIter, vals, best,
                   economic_params, schemaVars, engineVars>>

DesignNext == DesignProcess

DesignSpec == DesignInit /\ [][DesignNext]_vars

-----------------------------------------------------------------------------
(* AgentSpec: one OrchestratorAgent over its lifetime.  The caller makes    *)
(* direct design_process calls and then an optimize_process call, whose     *)
(* objective is evaluated at points of the minimizer's choosing.            *)

\* optimization_variables of the call: the temperature, or the point count
AgentVarChoices ==
    {<<v>> : v \in {w \in EvalVarChoices :
                      w.path \in {<<"initial_conditions", "T_C">>,
                                  <<"simulation_params", "n_points">>}}}

AgentInit ==
    /\ DesignInit
    /\ baseIC = BaseIC

\* orchestrator.optimize_process(base_initial_conditions,
\* base_simulation_params, optimization_variables, economic_params,
\* max_iter=...): the caller hands it the initial conditions the direct
\* calls were given, or a dictionary it builds for this call
OptimizeProcess ==
    /\ pc = "design"
    /\ pc' = "start"
    /\ baseIC' \in {baseIC, BaseIC}
    /\ optVars' \in AgentVarChoices
    /\ economic_params' \in EconomicParams
    /\ maxIter' = MaxIterBound
    /\ UNCHANGED <<baseSP, x0, nit, nfev, evInIter, vals, best, lastDp,
                   dpCalls, dpReturned, ret, agent, default_cost_params,
                   schemaVars, engineVars>>

\* the minimizer calls the objective at a point within the bounds; the
\* collaborators of the call are followed
TrialEvaluation ==
    /\ pc = "search"
    /\ nfev <= maxIter
    /\ \E x \in TrialPoints(optVars), env \in EvalEnvs : Evaluation(x, env, TRUE)
    /\ UNCHANGED <<optVars, maxIter, x0, nit, evInIter, schemaVars, engineVars>>

AgentNext == DesignProcess \/ OptimizeProcess \/ OptPrepare \/ TrialEvaluation

AgentSpec == AgentInit /\ [][AgentNext]_vars

-----------------------------------------------------------------------------
(* Claims about run_once *)

\* unit i of f has an empty inputs list or an empty outputs list
Unwired(f, i) == f.units[i].inputs = <<>> \/ f.units[i].outputs = <<>>

\* unit i of f has a behaviour in the dispatch registry and its first input
\* names a declared stream
Dispatchable(f, i) ==
    /\ f.units[i].type \in DOMAIN UNIT_REGISTRY
    /\ f.units[i].inputs # <<>>
    /\ \E j \in DOMAIN f.streams : f.streams[j].name = f.units[i].inputs[1]

\* the KPIs unit i of f reports when it is dispatched, under their keys
UnitKpis(f, i) ==
    PrefixedKpis(f.units[i].id,
                 simulate(UNIT_REGISTRY[f.units[i].type], f.units[i].params,
                          f.streams[FeedIndex(f.streams, f.units[i])]).kpis)

Max(S) == CHOOSE m \in S : \A n \in S : n <= m

\* C1: a run_once call on a flowsheet with a unit that has no inputs or no
\* outputs returns exactly {status: "invalid", reason: the Critic's message}:
\* no kpis, no OPEX_score, and no simulate call is made.
C1_InvalidShortCircuit ==
    [][(lastOp' = "run_once" /\ \E i \in DOMAIN fs.units : Unwired(fs, i))
        => /\ DOMAIN result' = {"status", "reason"}
           /\ result'.status = "invalid"
           /\ result'.reason = Critic_check(fs)[2]
           /\ result'.reason =
                <<"Unit ", fs.units[Min({i \in DOMAIN fs.units : Unwired(fs, i)})].id,
                  " missing inputs/outputs">>
           /\ simLog' = <<>>]_vars

\* a run on a flowsheet the Critic rejects although another unit could be dispatched
C1_Witness ==
    /\ lastOp = "run_once"
    /\ result.status = "invalid"
    /\ \E i, j \in DOMAIN fs.units :
          /\ i < j
          /\ Dispatchable(fs, i) /\ ~Unwired(fs, i)
          /\ fs.units[j].outputs = <<>> /\ fs.units[j].inputs # <<>>

\* C2: consecutive run_once calls on one flowsheet return the same mapping,
\* and every call leaves the units and the streams of the flowsheet as they were.
C2_Idempotent ==
    [][lastOp' = "run_once"
        => /\ fs' = fs
           /\ (lastOp = "run_once" => result' = result)]_vars

\* a repeated call on a flowsheet whose mill rescaled a PSD
C2_Witness ==
    /\ calls >= 2
    /\ result.status = "ok"
    /\ \E n \in DOMAIN simLog :
          /\ fs.units[simLog[n]].type = "mill"
          /\ fs.streams[FeedIndex(fs.streams, fs.units[simLog[n]])].psd # NoPSD

\* C6: on a flowsheet that passes the Critic, the units dispatched are exactly
\* those with a registered behaviour whose first input names a declared
\* stream; the others add no simulate call and no KPI entry, and the status is "ok".
C6_SilentSkip ==
    (lastOp = "run_once" /\ \A i \in DOMAIN fs.units : ~Unwired(fs, i))
    => /\ result.status = "ok"
       /\ Range(simLog) = {i \in DOMAIN fs.units : Dispatchable(fs, i)}
       /\ DOMAIN result.kpis =
             UNION {DOMAIN UnitKpis(fs, i) :
                       i \in {j \in DOMAIN fs.units : Dispatchable(fs, j)}}

\* a skipped unit (unregistered type, then: missing feed) before a dispatched one
C6_Witness ==
    /\ lastOp = "run_once"
    /\ result.status = "ok"
    /\ Len(fs.units) >= 2
    /\ ~Dispatchable(fs, 1)
    /\ 2 \in Range(simLog)
    /\ DOMAIN result.kpis # {}

\* the same, the first unit skipped for its missing feed stream
C6_WitnessNoFeed ==
    /\ C6_Witness
    /\ fs.units[1].type \in DOMAIN UNIT_REGISTRY

\* C7: units are dispatched in declaration order, every KPI of a dispatched
\* unit is recorded under "<unit_id>.<kpi_name>", and a key two dispatched
\* units produce holds the value of the unit declared later.
C7_OrderAndOverwrite ==
    (lastOp = "run_once" /\ result.status = "ok")
    => /\ \A m, n \in DOMAIN simLog : m < n => simLog[m] < simLog[n]
       /\ \A n \in DOMAIN simLog :
             \A k \in DOMAIN UnitKpis(fs, simLog[n]) :
                /\ k \in DOMAIN result.kpis
                /\ Len(k) = Len(fs.units[simLog[n]].id) + 2
                /\ SubSeq(k, 1, Len(k) - 2) = fs.units[simLog[n]].id
                /\ k[Len(k) - 1] = "."
       /\ \A k \in DOMAIN result.kpis :
             LET producers == {i \in Range(simLog) : k \in DOMAIN UnitKpis(fs, i)}
             IN  /\ producers # {}
                 /\ result.kpis[k] = UnitKpis(fs, Max(producers))[k]

\* two dispatched units wrote different values under one key
C7_Witness ==
    /\ lastOp = "run_once"
    /\ result.status = "ok"
    /\ \E i, j \in Range(simLog) :
          /\ i < j
          /\ \E k \in (DOMAIN UnitKpis(fs, i)) \cap (DOMAIN UnitKpis(fs, j)) :
                UnitKpis(fs, i)[k] # UnitKpis(fs, j)[k]

\* C8: when run_once returns "ok", OPEX_score is the sum of the values of the
\* returned kpis mapping (0 when it is empty); a value that a later unit
\* overwrote is not part of it.
C8_OpexIsSum ==
    (lastOp = "run_once" /\ result.status = "ok")
    => /\ result.OPEX_score = SumValues(result.kpis)
       /\ (DOMAIN result.kpis = {} => result.OPEX_score = 0)

\* a score over a mapping in which one value was overwritten by a different one
C8_Witness ==
    /\ C7_Witness
    /\ result.OPEX_score > 0

\* a score of 0 over an empty mapping
C8_WitnessEmpty ==
    /\ lastOp = "run_once"
    /\ result.status = "ok"
    /\ fs.units # <<>>
    /\ DOMAIN result.kpis = {}
    /\ result.OPEX_score = 0

-----------------------------------------------------------------------------
(* Claims about UnitOp construction (SchemaSpec) *)

\* the parameter names a description carries (none when it has no params)
GivenNames(d) == IF d.has_params THEN {d.params[i][1] : i \in DOMAIN d.params} ELSE {}

\* the description meets the parameter contract of its (registered) type
MeetsContract(d) ==
    LET c == UNIT_PARAM_SPEC[d.type]
    IN  /\ Range(c.req) \subseteq GivenNames(d)
        /\ GivenNames(d) \subseteq Range(c.req) \cup Range(c.opt)

\* C9: constructing a UnitOp of a registered type succeeds exactly when every
\* required parameter name of the type is given and every given name is
\* required or optional for the type; a description with no params at all
\* lacks the required names and fails.
C9_ExactContract ==
    (uOut.status # "none" /\ uDesc.type \in DOMAIN UNIT_PARAM_SPEC)
    => (uOut.status = "ok" <=> MeetsContract(uDesc))

\* C9 restricted to descriptions that give a params mapping
C9_GivenParamsContract ==
    (uOut.status # "none" /\ uDesc.type \in DOMAIN UNIT_PARAM_SPEC /\ uDesc.has_params)
    => (uOut.status = "ok" <=> MeetsContract(uDesc))

\* C10: constructing a UnitOp whose type tag is not in the contract table
\* fails with the validation error "Unknown unit type", whatever params the
\* description carries, an omitted mapping included.
C10_UnknownTypeRejected ==
    (uOut.status # "none" /\ uDesc.type \notin DOMAIN UNIT_PARAM_SPEC)
    => /\ uOut.status = "error"
       /\ uOut.error = <<"Unknown unit type", uDesc.type>>

\* C10, its consequence: every unit of a constructed flowsheet has a
\* registered type tag
C10_FlowsheetTypesRegistered ==
    \A i \in DOMAIN fs.units : fs.units[i].type \in DOMAIN UNIT_PARAM_SPEC

-----------------------------------------------------------------------------
(* Claims about optimize_process (OptSpec, OptLive) *)

\* C3: when design_process raises for a trial point the objective returns the
\* penalty 1e9 for it, and the exception reaches neither the minimizer nor
\* the caller (optimize_process raises only before the first evaluation);
\* when every design_process call raised, every evaluated point has the
\* value 1e9 and so has the reported min_value.
C3_PenaltyOnException ==
    /\ pc = "raised" => (dpCalls = 0 /\ nfev = 0)
    /\ lastDp.outcome = "raised" => lastDp.value = Penalty
    /\ (dpCalls > 0 /\ dpReturned = 0) => vals = {Penalty}
    /\ (pc = "returned" /\ dpReturned = 0) => ret.min_value = Penalty

\* a search of several evaluations, every one of them failed, that returned
C3_Witness ==
    /\ pc = "returned"
    /\ dpReturned = 0
    /\ dpCalls >= 2
    /\ ret.min_value = Penalty

\* C4: once the initial guess is prepared the search ends and optimize_process
\* returns the result mapping, also when design_process raises at every
\* point; the evaluations are made one at a time and their number is bounded
\* through max_iter.
C4_Terminates ==
    /\ (pc = "search") ~> (pc = "returned")
    /\ [](/\ nit <= maxIter
          /\ nfev <= 1 + maxIter * EvalsPerIter
          /\ dpCalls = nfev
          /\ pc = "returned" =>
                /\ DOMAIN ret = {"status", "success", "message", "optimized_params",
                                 "min_value", "n_iterations", "n_evaluations"}
                /\ ret.n_evaluations = nfev
                /\ ret.n_iterations = nit)

\* a search that used every iteration and evaluation it may, all of them
\* failed, and returned
C4_Witness ==
    /\ pc = "returned"
    /\ maxIter >= 1
    /\ nit = maxIter
    /\ nfev = 1 + maxIter * EvalsPerIter
    /\ dpReturned = 0

\* the variable has no initial value: none given, or None given, and none in
\* the base dictionary its path addresses
LacksInitialValue(var) ==
    IF var.has_initial_value THEN var.initial_value = None
    ELSE /\ var.path[1] = "initial_conditions" => var.path[2] \notin DOMAIN BaseIC
         /\ var.path[1] = "simulation_params" => var.path[2] \notin DOMAIN BaseSP

UnknownRoot(var) == var.path[1] \notin {"initial_conditions", "simulation_params"}

\* C5: when some declared variable has no initial value or a path with an
\* unknown root, optimize_process raises before the first objective
\* evaluation, whether or not the variable carries an explicit initial_value.
C5_ConfigErrorBeforeSearch ==
    (pc # "start" /\ \E i \in DOMAIN optVars :
                        LacksInitialValue(optVars[i]) \/ UnknownRoot(optVars[i]))
    => (pc = "raised" /\ dpCalls = 0)

\* C5 without the variables that carry a number as initial_value: a variable
\* that lacks an initial value, or has an unknown root and no initial_value
C5_UncheckedRootWithValue ==
    (pc # "start" /\ \E i \in DOMAIN optVars :
                        \/ LacksInitialValue(optVars[i])
                        \/ (UnknownRoot(optVars[i]) /\ ~optVars[i].has_initial_value))
    => (pc = "raised" /\ dpCalls = 0)

-----------------------------------------------------------------------------
(* Claims about the structure of a flowsheet (GraphSpec) *)

\* a flowsheet object exists: load_flowsheet returned it
Constructed == lastOp \notin {"idle", "load_failed"}

\* the stream names unit i of f refers to
Refs(f, i) == Range(f.units[i].inputs) \cup Range(f.units[i].outputs)

\* some unit of f produces the stream named s; some unit consumes it
Produced(f, s) == \E i \in DOMAIN f.units : s \in Range(f.units[i].outputs)
Consumed(f, s) == \E i \in DOMAIN f.units : s \in Range(f.units[i].inputs)

\* unit i of f refers to a stream that is not declared
Dangling(f, i) == ~(Refs(f, i) \subseteq StreamNames(f))

\* the structural invariants of a flowsheet
StructurallyValid(f) ==
    /\ \A i \in DOMAIN f.units : ~Dangling(f, i)
    /\ \E s \in StreamNames(f) : ~Produced(f, s)
    /\ \E s \in StreamNames(f) : ~Consumed(f, s)

\* C11: every constructed Flowsheet has no dangling stream reference, a feed
\* and a sink; a description without them is rejected when it is loaded.
C11_ConstructedIsValid == Constructed => StructurallyValid(fs)

\* C11, its consequence: run_once simulates no unit of a flowsheet that
\* breaks the structural invariants
C11_NeverRunsInvalid == simLog # <<>> => StructurallyValid(fs)

\* C12: validate_graph fails when every declared stream is an output of some
\* unit and when every declared stream is an input of some unit; it returns
\* True when every reference is declared, some declared stream is produced by
\* no unit and some declared stream is consumed by no unit.
C12_FeedSinkRule ==
    lastOp = "validate_graph"
    => /\ (\A s \in StreamNames(fs) : Produced(fs, s)) => result.status = "raised"
       /\ (\A s \in StreamNames(fs) : Consumed(fs, s)) => result.status = "raised"
       /\ StructurallyValid(fs) => result = [status |-> "ok", value |-> TRUE]

\* a flowsheet with a feed, every reference declared, and no sink was refused
C12_Witness ==
    /\ lastOp = "validate_graph"
    /\ fs.units # <<>>
    /\ \A i \in DOMAIN fs.units : ~Dangling(fs, i)
    /\ \E s \in StreamNames(fs) : ~Produced(fs, s)
    /\ \A s \in StreamNames(fs) : Consumed(fs, s)
    /\ result.status = "raised"

\* a flowsheet whose one stream is feed and sink at once was accepted
C12_WitnessBothRoles ==
    /\ lastOp = "validate_graph"
    /\ Cardinality(StreamNames(fs)) = 1
    /\ result = [status |-> "ok", value |-> TRUE]

\* C13: when some unit refers to an undeclared stream validate_graph raises
\* the error that names the first such unit and the first undeclared stream
\* of its inputs + outputs, also when the flowsheet has no feed or no sink.
C13_UnknownStreamFirst ==
    (lastOp = "validate_graph" /\ \E i \in DOMAIN fs.units : Dangling(fs, i))
    => LET i0 == Min({i \in DOMAIN fs.units : Dangling(fs, i)})
           u == fs.units[i0]
           badIn == {k \in DOMAIN u.inputs : u.inputs[k] \notin StreamNames(fs)}
           badOut == {k \in DOMAIN u.outputs : u.outputs[k] \notin StreamNames(fs)}
       IN  /\ result.status = "raised"
           /\ Len(result.error) = 4
           /\ result.error[1] = "Unit "
           /\ result.error[2] = u.id
           /\ result.error[3] = " references unknown stream "
           /\ result.error[4] = IF badIn # {} THEN u.inputs[Min(badIn)]
                                ELSE u.outputs[Min(badOut)]

\* a flowsheet without a feed, whose second unit refers to two undeclared
\* streams, was refused for the first of them
C13_Witness ==
    /\ lastOp = "validate_graph"
    /\ Len(fs.units) >= 2
    /\ StreamNames(fs) # {}
    /\ \A s \in StreamNames(fs) : Produced(fs, s)
    /\ ~Dangling(fs, 1)
    /\ fs.units[2].inputs = <<"ghost">> /\ fs.units[2].outputs = <<"void">>
    /\ result.status = "raised"
    /\ result.error[2] = fs.units[2].id
    /\ result.error[4] = "ghost"

\* C14: Critic.check returns (False, a message with the id of the first unit
\* that has no inputs or no outputs) when there is such a unit and (True, "ok")
\* otherwise, a flowsheet without units included; the call leaves the
\* flowsheet as it was.
C14_CriticRule ==
    /\ [](lastOp = "check"
          => IF \E i \in DOMAIN fs.units : Unwired(fs, i)
             THEN /\ result.ok = FALSE
                  /\ result.message =
                        <<"Unit ",
                          fs.units[Min({i \in DOMAIN fs.units : Unwired(fs, i)})].id,
                          " missing inputs/outputs">>
             ELSE /\ result.ok = TRUE
                  /\ result.message = <<"ok">>)
    /\ [][lastOp' = "check" => fs' = fs]_vars

\* a check that named the second unit, the first one wired
C14_Witness ==
    /\ lastOp = "check"
    /\ Len(fs.units) >= 2
    /\ ~Unwired(fs, 1)
    /\ fs.units[2].outputs = <<>> /\ fs.units[2].inputs # <<>>
    /\ result.ok = FALSE
    /\ result.message[2] = fs.units[2].id

\* a check of a flowsheet without units
C14_WitnessNoUnits ==
    /\ lastOp = "check"
    /\ fs.units = <<>>
    /\ result.ok = TRUE

-----------------------------------------------------------------------------
(* Claims about PSD construction (PSDSpec) *)

C15_WitnessHigh ==
    /\ uOut.status = "ok"
    /\ Len(uDesc.mass_frac) = 2
    /\ SumSeq(uDesc.mass_frac) = 101

\* one whose fractions sum to 0.98, and one whose fractions sum to 1.02, was refused
C15_WitnessRefused ==
    /\ uOut.status = "error"
    /\ Len(uDesc.mass_frac) >= 2
    /\ SumSeq(uDesc.mass_frac) \in {98, 102}

-----------------------------------------------------------------------------
(* Claims about the mill (Spec) *)

\* the one mill of f, when f has exactly one unit of type mill (0 otherwise)
TheMill(f) ==
    LET mills == {i \in DOMAIN f.units : f.units[i].type = "mill"}
    IN  IF Cardinality(mills) = 1 THEN CHOOSE i \in mills : TRUE ELSE 0

\* f passes the Critic, has one mill, and the stream the mill's first input
\* names carries a PSD
MillOnPSD(f) ==
    /\ \A i \in DOMAIN f.units : ~Unwired(f, i)
    /\ TheMill(f) # 0
    /\ Dispatchable(f, TheMill(f))
    /\ f.streams[FeedIndex(f.streams, f.units[TheMill(f)])].psd # NoPSD

C16_WitnessParameter ==
    /\ lastOp = "run_once"
    /\ MillOnPSD(fs)
    /\ Len(fs.units) >= 2
    /\ LET u == fs.units[TheMill(fs)]
       IN  /\ "E_specific_kWhpt" \in DOMAIN u.params
           /\ result.kpis[KpiKey(u.id, "E_specific_kWhpt")] = u.params["E_specific_kWhpt"]
           /\ u.params["E_specific_kWhpt"] # 80

-----------------------------------------------------------------------------
(* Claims about suggest (SuggestSpec) *)

\* w is v times a factor of [0.9, 1.1], in exact arithmetic
WithinTenPercent(v, w) ==
    IF v >= 0 THEN 9 * v <= 10 * w /\ 10 * w <= 11 * v
    ELSE 11 * v <= 10 * w /\ 10 * w <= 9 * v

\* C17: a suggest call changes nothing but the parameter values of the first
\* unit: each becomes its old value times a factor of [0.9, 1.1] and the
\* parameter names stay; the other units, every id, type, inputs and outputs,
\* the number and order of the units and the streams are as before, and a
\* flowsheet without units is left as it was.
C17_SuggestFrame ==
    [][lastOp' = "suggest"
        => /\ fs'.streams = fs.streams
           /\ Len(fs'.units) = Len(fs.units)
           /\ \A i \in DOMAIN fs.units :
                 /\ fs'.units[i].id = fs.units[i].id
                 /\ fs'.units[i].type = fs.units[i].type
                 /\ fs'.units[i].inputs = fs.units[i].inputs
                 /\ fs'.units[i].outputs = fs.units[i].outputs
                 /\ DOMAIN fs'.units[i].params = DOMAIN fs.units[i].params
                 /\ i > 1 => fs'.units[i].params = fs.units[i].params
           /\ fs.units # <<>>
                => \A k \in DOMAIN fs.units[1].params :
                      WithinTenPercent(fs.units[1].params[k], fs'.units[1].params[k])
           /\ fs.units = <<>> => fs' = fs
           /\ result' = result]_vars

\* a suggest call lowered the energy parameter of the first of two equal
\* mills and left the second one alone
C17_Witness ==
    /\ lastOp = "suggest"
    /\ calls = 1
    /\ Len(fs.units) >= 2
    /\ fs.units[1].type = "mill" /\ fs.units[2].type = "mill"
    /\ "E_specific_kWhpt" \in DOMAIN fs.units[1].params
    /\ "E_specific_kWhpt" \in DOMAIN fs.units[2].params
    /\ fs.units[1].params["E_specific_kWhpt"] < fs.units[2].params["E_specific_kWhpt"]
    /\ fs.units[2].params["E_specific_kWhpt"] = ParamValue("E_specific_kWhpt")
    /\ fs.units[1].params["fineness_factor"] = fs.units[2].params["fineness_factor"]

\* a suggest call on a flowsheet without units
C17_WitnessNoUnits ==
    /\ lastOp = "suggest"
    /\ fs.units = <<>>
    /\ fs.streams # <<>>

-----------------------------------------------------------------------------
(* Claims about the objective of optimize_process (EvalSpec) *)

KnownRoot(var) == var.path[1] \in {"initial_conditions", "simulation_params"}

\* the entry of the arguments of a design_process call that path addresses
EntryAt(args, path) ==
    IF path[1] = "initial_conditions" THEN args.ic[path[2]] ELSE args.sp[path[2]]

\* the keys of the dictionary named root that the variables address
Addressed(variables, root) ==
    {variables[i].path[2] : i \in {j \in DOMAIN variables : variables[j].path[1] = root}}

\* d holds the entries of base that are not in keys, and no key beyond
\* those of base and keys
SameElsewhere(d, base, keys) ==
    /\ DOMAIN d = (DOMAIN base) \cup keys
    /\ \A k \in (DOMAIN base) \ keys : d[k] = base[k]

\* what C18 says of the entries no variable addresses, and of the base
\* dictionaries
C18_Frame ==
    /\ baseIC = BaseIC
    /\ baseSP = BaseSP
    /\ lastDp.outcome # "none"
         => /\ SameElsewhere(lastDp.args.ic, BaseIC, Addressed(optVars, "initial_conditions"))
            /\ SameElsewhere(lastDp.args.sp, BaseSP, Addressed(optVars, "simulation_params"))

\* C18 as stated: every evaluation calls design_process with the base
\* dictionaries in which, for every variable i, the entry its path addresses
\* holds x[i]; the base dictionaries are as they were given.
C18_EveryVariableApplied ==
    /\ C18_Frame
    /\ lastDp.outcome # "none"
         => \A i \in DOMAIN optVars :
               KnownRoot(optVars[i]) => EntryAt(lastDp.args, optVars[i].path) = lastDp.x[i]

\* C18, amended: the entry a path addresses holds x[i] for the last variable
\* i declared with that path (a later variable with the same path overwrites
\* an earlier one); the rest as stated.
C18_LastVariableApplied ==
    /\ C18_Frame
    /\ lastDp.outcome # "none"
         => \A i \in DOMAIN optVars :
               (/\ KnownRoot(optVars[i])
                /\ \A j \in DOMAIN optVars : j > i => optVars[j].path # optVars[i].path)
               => EntryAt(lastDp.args, optVars[i].path) = lastDp.x[i]

\* after a failed and a successful evaluation: two variables of different
\* paths hold different trial values, in a call that changed its own
\* dictionaries
C18_Witness ==
    /\ nfev >= 2
    /\ dpReturned >= 1
    /\ dpCalls > dpReturned
    /\ Len(optVars) >= 2
    /\ optVars[1].path = <<"simulation_params", "n_points">>
    /\ optVars[2].path = <<"initial_conditions", "T_C">>
    /\ lastDp.x[1] # lastDp.x[2]
    /\ lastDp.args.sp["n_points"] = lastDp.x[1]
    /\ lastDp.args.ic["T_C"] = lastDp.x[2]
    /\ "constraint" \in DOMAIN lastDp.args.sp
    /\ baseSP = BaseSP

-----------------------------------------------------------------------------
(* Claims about design_process called directly (DesignSpec) *)

\* the collaborator calls of design_process, in the order it makes them
Collaborators == <<"define_state", "run_simulation", "calculate_lcop">>

\* the position of the collaborator call c
CollaboratorIndex(c) == CHOOSE i \in DOMAIN Collaborators : Collaborators[i] = c

\* C19: when a collaborator of a direct design_process call raises (the
\* state definition, the kinetics simulation or the cost computation) the
\* exception reaches the caller: the call returns no result mapping and no
\* penalty value, and no collaborator after the one that raised is called.
C19_FailurePropagates ==
    (lastDp.outcome # "none" /\ lastDp.env.fail # "none")
    => /\ lastDp.outcome = "raised"
       /\ ret.status = "raised"
       /\ DOMAIN ret = {"status", "error"}
       /\ ret.error[1] = "design_process"
       /\ ret.error[2] = lastDp.calls[Len(lastDp.calls)]
       /\ CollaboratorIndex(ret.error[2]) <= CollaboratorIndex(lastDp.env.fail)
       /\ Len(lastDp.calls) = CollaboratorIndex(ret.error[2])

\* a direct call in which the state was defined and the simulation ran, and
\* the cost computation raised
C19_Witness ==
    /\ ret.status = "raised"
    /\ lastDp.env.fail = "calculate_lcop"
    /\ lastDp.calls = <<"define_state", "run_simulation", "calculate_lcop">>
    /\ ret.error = <<"design_process", "calculate_lcop">>

\* a direct call that returned its result mapping
C19_WitnessReturned ==
    /\ ret.status = "returned"
    /\ lastDp.env.fail = "none"
    /\ ret.lcop \in LcopValues

-----------------------------------------------------------------------------
(* Claims about the unit behaviours (UnitSpec) *)

\* the output roles of the behaviours that have two
TwoRoles ==
    [cyclone |-> {"overflow", "underflow"},
     lims |-> {"concentrate", "tailings"},
     flotation |-> {"froth", "tail"},
     leach |-> {"pregnant", "residue"},
     thickener |-> {"underflow", "overflow"}]

\* C20: a simulate call of any behaviour leaves the feed it is given, and so
\* every stream of the flowsheet, as it was, and so does run_once; a
\* behaviour with two output roles returns, under its two roles, two streams
\* equal to the feed.
C20_FeedUntouched ==
    /\ [][lastOp' \in {"simulate", "run_once"} => fs' = fs]_vars
    /\ [](lastOp = "simulate"
          => LET type == fs.units[result.unit].type
                 feed == fs.streams[result.feed]
             IN  type \in DOMAIN TwoRoles
                    => /\ DOMAIN result.outputs = TwoRoles[type]
                       /\ \A r \in TwoRoles[type] : result.outputs[r] = feed)

\* a cyclone was run on a feed with a PSD: the feed has it still, and both
\* outputs have it
C20_Witness ==
    /\ lastOp = "simulate"
    /\ fs.units[result.unit].type = "cyclone"
    /\ fs.streams[result.feed].psd # NoPSD
    /\ result.outputs["overflow"].psd = fs.streams[result.feed].psd
    /\ result.outputs["underflow"].psd = fs.streams[result.feed].psd

\* a mill rescaled the PSD of its product and the feed has the bins it had
C20_WitnessMill ==
    /\ lastOp = "simulate"
    /\ fs.units[result.unit].type = "mill"
    /\ fs.streams[result.feed].psd # NoPSD
    /\ fs.streams[result.feed].psd[1].bins_um \in {<<100, 50>>, <<200, 100, 50>>}
    /\ result.outputs["product"].psd[1].bins_um # fs.streams[result.feed].psd[1].bins_um
-----------------------------------------------------------------------------
(* Claims about the collaborators of the OrchestratorAgent *)

\* C21: within one design_process call the collaborators are called in the
\* order state definition, kinetics simulation, cost computation, each at
\* most once; when one raises the later ones are not called in that call,
\* and the call returns its result mapping only after all three completed.
C21_CollaboratorOrder ==
    lastDp.outcome # "none"
    => /\ Len(lastDp.calls) \in 1..Len(Collaborators)
       /\ \A i \in 1..Len(lastDp.calls) : lastDp.calls[i] = Collaborators[i]
       /\ lastDp.env.fail # "none"
            => /\ lastDp.outcome = "raised"
               /\ \A c \in Range(lastDp.calls) :
                     CollaboratorIndex(c) <= CollaboratorIndex(lastDp.env.fail)
       /\ lastDp.outcome = "returned"
            => /\ lastDp.calls = Collaborators
               /\ lastDp.env.fail = "none"
               /\ ret.status = "returned"
       /\ Len(lastDp.calls) < Len(Collaborators) => ret.status = "raised"

\* a call in which the simulation raised after the state was defined: the
\* cost was not computed
C21_Witness ==
    /\ lastDp.outcome = "raised"
    /\ lastDp.env.fail = "run_simulation"
    /\ lastDp.calls = <<"define_state", "run_simulation">>

\* a second call on the agent that made its three collaborator calls and
\* returned
C21_WitnessReturned ==
    /\ dpCalls = 2
    /\ lastDp.outcome = "returned"
    /\ lastDp.calls = Collaborators

C22_WitnessNoKinetics ==
    /\ pc = "design"
    /\ dpCalls = 1
    /\ lastDp.calls = <<"define_state">>
    /\ lastDp.constructs = <<>>
    /\ agent.kinetics_agent = None

-----------------------------------------------------------------------------
(* Claims about the argument mappings of design_process (DesignSpec) *)

\* the call recorded in lastDp was given initial_conditions that an earlier
\* call had renamed the mineral specification in
GivenRenamed == "mineralSpec" \in DOMAIN lastDp.args.ic

\* C27 as stated: a direct design_process call removes "constraint" from the
\* simulation_params it was passed and renames "mineral_spec" of the
\* initial_conditions to "mineralSpec", so a second call with the same two
\* mappings runs, with the default constraint and without mineral_spec: when
\* no collaborator fails it gets to the simulation and returns.
C27_SecondCallRuns ==
    (lastDp.outcome # "none" /\ GivenRenamed /\ lastDp.env.fail = "none")
    => /\ "run_simulation" \in Range(lastDp.calls)
       /\ lastDp.outcome = "returned"

\* C27 as amended: a direct design_process call that gets past the state
\* definition removes "constraint" from the simulation_params it was passed
\* and renames "mineral_spec" of the initial_conditions to "mineralSpec" (a
\* call that stops at the state definition leaves both as they were); a
\* second call with the same two mappings hands mineralSpec instead of
\* mineral_spec to define_state and raises there, before it reads a
\* constraint or constructs a KineticsAgent.
C27_NotRepeatable ==
    lastDp.outcome # "none"
    => /\ Len(lastDp.calls) >= 2
            => /\ "constraint" \notin DOMAIN baseSP
               /\ baseSP = Without(lastDp.args.sp, "constraint")
               /\ "mineral_spec" \notin DOMAIN baseIC
               /\ "mineral_spec" \in DOMAIN lastDp.args.ic
               /\ baseIC = Set(Without(lastDp.args.ic, "mineral_spec"), "mineralSpec",
                               lastDp.args.ic["mineral_spec"])
       /\ Len(lastDp.calls) = 1
            => /\ baseSP = lastDp.args.sp
               /\ baseIC = lastDp.args.ic
       /\ GivenRenamed
            => /\ lastDp.calls = <<"define_state">>
               /\ lastDp.outcome = "raised"
               /\ lastDp.constructs = <<>>
               /\ ret.status = "raised"

\* a second call on the mappings of a first that got past the state
\* definition, in which no collaborator fails: it raises at define_state
C27_Witness ==
    /\ dpCalls = 2
    /\ GivenRenamed
    /\ "constraint" \notin DOMAIN lastDp.args.sp
    /\ lastDp.env.fail = "none"
    /\ lastDp.outcome = "raised"

\* a first call that returned, on mappings that held a constraint and a
\* mineral specification
C27_WitnessFirst ==
    /\ dpCalls = 1
    /\ lastDp.outcome = "returned"
    /\ "constraint" \in DOMAIN lastDp.args.sp
    /\ "mineralSpec" \in DOMAIN baseIC

-----------------------------------------------------------------------------
(* Claims about the cost parameters of an OrchestratorAgent (AgentSpec) *)

\* economic_params of the design_process call recorded in lastDp: those of a
\* direct call, those of optimize_process for a trial evaluation
SuppliedParams ==
    LET econ == IF "economic_params" \in DOMAIN lastDp
                THEN lastDp.economic_params ELSE economic_params
    IN  IF econ = None THEN EmptyDict ELSE econ[1]

\* the call recorded in lastDp got to the economic assessment
ReachedAssessment == lastDp.outcome # "none" /\ Len(lastDp.calls) = Len(Collaborators)

\* C28: the cost parameters persist across the design_process calls of one
\* OrchestratorAgent, direct calls and trial evaluations alike: a call that
\* gets to the economic assessment finds the mapping as the call before left
\* it, sets the entries its economic_params supply and leaves every other
\* entry as it was, also when it passes no economic_params; a call that
\* raises before the assessment leaves the mapping alone.  So an entry
\* supplied in one call stays until a later call supplies that same key.
C28_CostParamsPersist ==
    [][dpCalls' = dpCalls + 1
       => IF ReachedAssessment'
          THEN /\ DOMAIN default_cost_params' =
                     DOMAIN default_cost_params \cup DOMAIN SuppliedParams'
               /\ \A k \in DOMAIN SuppliedParams' :
                     default_cost_params'[k] = SuppliedParams'[k]
               /\ \A k \in DOMAIN default_cost_params \ DOMAIN SuppliedParams' :
                     default_cost_params'[k] = default_cost_params[k]
          ELSE default_cost_params' = default_cost_params]_vars

\* a trial evaluation of an optimize_process call that passes no
\* economic_params, after a direct call that supplied a production target:
\* the target is still in the mapping the cost is computed from
C28_Witness ==
    /\ pc = "search"
    /\ nfev >= 1
    /\ economic_params = None
    /\ ReachedAssessment
    /\ lastDp.outcome = "returned"
    /\ "M_target_tonnes" \in DOMAIN default_cost_params
    /\ default_cost_params["M_target_tonnes"] = 5000
    /\ default_cost_params["c_wage"] = DefaultCostParams["c_wage"]

\* a trial evaluation whose economic_params overwrite the target a direct
\* call supplied and the energy price of the module
C28_WitnessOverwritten ==
    /\ pc = "search"
    /\ dpCalls >= 2
    /\ ReachedAssessment
    /\ "M_target_tonnes" \in DOMAIN default_cost_params
    /\ default_cost_params["M_target_tonnes"] = 1000
    /\ default_cost_params["c_energy"] = 7
    /\ default_cost_params["c_wage"] = DefaultCostParams["c_wage"]

-----------------------------------------------------------------------------
(* Claims about the contract table and the dispatch registry (Spec) *)

\* the unit i of f has an entry of its own in the KPI mapping kpis
HasKpi(f, i, kpis) ==
    \E key \in DOMAIN kpis : key = KpiKey(f.units[i].id, key[Len(key)])

\* C23: every type tag of the parameter contract table has a behaviour in the
\* dispatch registry, so after run_once on a flowsheet that passes the Critic
\* every unit of such a type whose first input names a declared stream has
\* at least one entry in the KPI mapping returned.
C23_AcceptedTypesDispatch ==
    (lastOp = "run_once" /\ result.status = "ok")
    => \A i \in DOMAIN fs.units :
          (/\ fs.units[i].type \in DOMAIN UNIT_PARAM_SPEC
           /\ FeedIndex(fs.streams, fs.units[i]) # 0)
          => /\ fs.units[i].type \in DOMAIN UNIT_REGISTRY
             /\ HasKpi(fs, i, result.kpis)

-----------------------------------------------------------------------------
(* Claims about the order of the units in run_once (GraphSpec) *)

\* the flowsheet f with its units in the order p
Reordered(f, p) == [f EXCEPT !.units = [j \in DOMAIN f.units |-> f.units[p[j]]]]

\* the ids of the units of f are pairwise distinct
DistinctIds(f) ==
    \A i, j \in DOMAIN f.units : i # j => f.units[i].id # f.units[j].id

\* C24: run_once takes the feed of every unit from the declared stream list,
\* by the unit's first input name, never from what a unit executed before
\* has produced: the KPIs of a unit are those its behaviour reports on the
\* declared stream.  So when the ids are pairwise distinct the KPI mapping
\* returned is the same for every order of the unit list.
C24_OrderIrrelevant ==
    (lastOp = "run_once" /\ result.status = "ok" /\ DistinctIds(fs))
    => /\ \A i \in DOMAIN fs.units :
             Dispatchable(fs, i)
             => \A key \in DOMAIN UnitKpis(fs, i) :
                   /\ key \in DOMAIN result.kpis
                   /\ result.kpis[key] = UnitKpis(fs, i)[key]
       /\ \A p \in Permutations(DOMAIN fs.units) :
             LET other == run_once(Reordered(fs, p)).ret
             IN  /\ other.status = "ok"
                 /\ other.kpis = result.kpis

\* a run of two mills in a chain: the first grinds the declared feed, which
\* has a PSD, into the stream the second reads, which is declared without
\* one; the second reports the energy of a feed without PSD
C24_Witness ==
    /\ lastOp = "run_once"
    /\ result.status = "ok"
    /\ Len(fs.units) = 2
    /\ fs.streams = <<FeedPSD, Prod>>
    /\ fs.units[1].inputs = <<"feed">> /\ fs.units[1].outputs = <<"prod">>
    /\ fs.units[2].inputs = <<"prod">> /\ fs.units[2].outputs = <<"void">>
    /\ simLog = <<1, 2>>
    /\ result.kpis[KpiKey(fs.units[1].id, "E_specific_kWhpt")] = DefaultEnergy
    /\ result.kpis[KpiKey(fs.units[2].id, "E_specific_kWhpt")] = 0

-----------------------------------------------------------------------------
(* Claims about suggest and run_once calls on one flowsheet (LoopSpec) *)

\* the unit u carries every required parameter name of its type and no name
\* the contract table does not list for the type
UnitMeetsContract(u) ==
    /\ u.type \in DOMAIN UNIT_PARAM_SPEC
    /\ Range(UNIT_PARAM_SPEC[u.type].req) \subseteq DOMAIN u.params
    /\ DOMAIN u.params \subseteq
          Range(UNIT_PARAM_SPEC[u.type].req) \cup Range(UNIT_PARAM_SPEC[u.type].opt)

\* a call leaves the parameter names of every unit and the verdict of
\* Critic.check as they were
KeysAndVerdictKept ==
    /\ Len(fs'.units) = Len(fs.units)
    /\ \A i \in DOMAIN fs.units : DOMAIN fs'.units[i].params = DOMAIN fs.units[i].params
    /\ Critic_check(fs') = Critic_check(fs)

\* C25: after any sequence of suggest and run_once calls on a constructed
\* flowsheet every unit satisfies its parameter contract (its parameter names
\* are those of its construction: every required name, no unregistered one)
\* and Critic.check gives the verdict it gave before the sequence.
C25_ContractAndVerdictKept ==
    /\ [](\A i \in DOMAIN fs.units : UnitMeetsContract(fs.units[i]))
    /\ [][KeysAndVerdictKept]_vars

\* C25, the part that is about the calls: no suggest or run_once call changes
\* the parameter names of a unit or the verdict of Critic.check
C25_CallsKeepKeysAndVerdict == [][KeysAndVerdictKept]_vars

\* C26: suggest edits the flowsheet it is given and returns that same
\* object: after fs2 = suggest(fs), fs and fs2 are one flowsheet carrying
\* the perturbed parameters of the first unit, and a run_once on fs after
\* the call gives what a run_once on fs2 gives.
C26_SuggestInPlace ==
    [][/\ lastOp' = "suggest"
          => /\ result'.same
             /\ result'.fs2 = fs'
             /\ fs.units # <<>>
                   => fs'.units[1].params \in suggest_edit(fs.units[1].params)
       /\ (lastOp = "suggest" /\ lastOp' = "run_once")
          => result' = run_once(result.fs2).ret]_vars

\* a run_once on the flowsheet after a suggest call reports the specific
\* energy that suggest gave the first mill, not the one of the construction
C26_Witness ==
    /\ lastOp = "run_once"
    /\ calls = 2
    /\ result.status = "ok"
    /\ fs.units # <<>>
    /\ fs.units[1].type = "mill"
    /\ "E_specific_kWhpt" \in DOMAIN fs.units[1].params
    /\ fs.units[1].params["E_specific_kWhpt"] # ParamValue("E_specific_kWhpt")
    /\ KpiKey(fs.units[1].id, "E_specific_kWhpt") \in DOMAIN result.kpis
    /\ result.kpis[KpiKey(fs.units[1].id, "E_specific_kWhpt")]
          = fs.units[1].params["E_specific_kWhpt"]

\* the parameter values tried for the cyclones and magnetic separators
TriedValues == {1, 7, 10}

\* the flowsheets that differ from f only in the parameter values of its
\* cyclone and lims units
ValueVariants(f) ==
    {[f EXCEPT !.units = us] :
        us \in {w \in [DOMAIN f.units -> UNION {{[f.units[i] EXCEPT !.params = p] :
                                                   p \in [DOMAIN f.units[i].params -> TriedValues]
                                                         \cup {f.units[i].params}} :
                                                i \in DOMAIN f.units}] :
                  \A i \in DOMAIN f.units :
                     /\ w[i].id = f.units[i].id
                     /\ w[i].type = f.units[i].type
                     /\ w[i].inputs = f.units[i].inputs
                     /\ w[i].outputs = f.units[i].outputs
                     /\ DOMAIN w[i].params = DOMAIN f.units[i].params
                     /\ f.units[i].type \notin {"cyclone", "lims"}
                           => w[i].params = f.units[i].params}}

\* the KPIs that the run r records for the cyclone and lims units of f
SeparatorKpis(f, r) ==
    {<<k, r.kpis[k]>> :
        k \in ({KpiKey(f.units[i].id, "UF_split") :
                   i \in {j \in DOMAIN f.units : f.units[j].type = "cyclone"}}
               \cup {KpiKey(f.units[i].id, "mag_rec") :
                        i \in {j \in DOMAIN f.units : f.units[j].type = "lims"}})
              \cap DOMAIN r.kpis}

\* C29: for flowsheets built through schema validation the KPI that run_once
\* records for a cyclone unit (UF_split) and for a lims unit (mag_rec) does
\* not depend on the parameters of the unit: flowsheets that differ only in
\* the parameter values of such units yield the same values for them, 0.6
\* and 0.8, since no such unit carries the names the behaviours read
\* (underflow_split, mag_recovery).
C29_SeparatorKpisFixed ==
    /\ \A i \in DOMAIN fs.units :
          /\ fs.units[i].type = "cyclone" => "underflow_split" \notin DOMAIN fs.units[i].params
          /\ fs.units[i].type = "lims" => "mag_recovery" \notin DOMAIN fs.units[i].params
    /\ LET a == run_once(fs).ret
       IN  /\ a.status = "ok"
              => \A kv \in SeparatorKpis(fs, a) :
                    kv[2] = IF kv[1][3] = "UF_split" THEN DefaultSplit ELSE DefaultMagRec
           /\ \A g \in ValueVariants(fs) :
                 LET b == run_once(g).ret
                 IN  /\ b.status = a.status
                     /\ a.status = "ok" => SeparatorKpis(g, b) = SeparatorKpis(fs, a)
    /\ (lastOp = "run_once" /\ result.status = "ok")
          => \A kv \in SeparatorKpis(fs, result) :
                kv[2] = IF kv[1][3] = "UF_split" THEN DefaultSplit ELSE DefaultMagRec

\* a run_once recorded the KPIs of a cyclone whose cut size suggest had
\* lowered and of a magnetic separator of recovery parameter 10
C29_Witness ==
    /\ lastOp = "run_once"
    /\ result.status = "ok"
    /\ Len(fs.units) = 2
    /\ fs.units[1].type = "cyclone"
    /\ fs.units[1].params["d50c_um"] = 9
    /\ fs.units[2].type = "lims"
    /\ fs.units[2].params["magnetic_recovery"] = 10
    /\ SeparatorKpis(fs, result)
          = {<<KpiKey(fs.units[1].id, "UF_split"), DefaultSplit>>,
             <<KpiKey(fs.units[2].id, "mag_rec"), DefaultMagRec>>}

-----------------------------------------------------------------------------
(* Claims about Mill.simulate on a feed without PSD (UnitSpec) *)

\* C30: Mill.simulate on a feed stream without PSD reports E_specific_kWhpt
\* 0.0 whatever the E_specific_kWhpt parameter of the unit is and returns the
\* feed stream itself, not a copy, as its product; a feed with a PSD yields
\* the energy of the parameter (8.0 without one) and a new product stream.
C30_MillWithoutPSD ==
    (lastOp = "simulate" /\ fs.units[result.unit].type = "mill")
    => LET u == fs.units[result.unit]
           feed == fs.streams[result.feed]
       IN  /\ DOMAIN result.kpis = {"E_specific_kWhpt"}
           /\ DOMAIN result.outputs = {"product"}
           /\ IF feed.psd = NoPSD
              THEN /\ result.kpis["E_specific_kWhpt"] = 0
                   /\ result.is_feed["product"]
                   /\ result.outputs["product"] = feed
              ELSE /\ result.kpis["E_specific_kWhpt"]
                         = Get(u.params, "E_specific_kWhpt", DefaultEnergy)
                   /\ ~result.is_feed["product"]
                   /\ result.outputs["product"].name = feed.name
                   /\ result.outputs["product"].psd # NoPSD

\* a mill with an energy parameter was called on a feed without PSD
C30_Witness ==
    /\ lastOp = "simulate"
    /\ fs.units[result.unit].type = "mill"
    /\ "E_specific_kWhpt" \in DOMAIN fs.units[result.unit].params
    /\ fs.units[result.unit].params["E_specific_kWhpt"] > 0
    /\ fs.streams[result.feed].psd = NoPSD
    /\ result.kpis["E_specific_kWhpt"] = 0
    /\ result.is_feed["product"]

\* the same mill was called on a feed with a PSD
C30_WitnessPSD ==
    /\ lastOp = "simulate"
    /\ fs.units[result.unit].type = "mill"
    /\ "E_specific_kWhpt" \in DOMAIN fs.units[result.unit].params
    /\ fs.streams[result.feed].psd # NoPSD
    /\ result.kpis["E_specific_kWhpt"] = fs.units[result.unit].params["E_specific_kWhpt"]
    /\ ~result.is_feed["product"]

====
